---- MODULE Spec2Model ----
(***************************************************************************)
(* Verification model of the Dirichlet hole-filling solvers of the         *)
(* repository: dirichlet::Fill (exact solver, include/dirichlet/Fill.hpp)  *)
(* and dirichlet::FillBiLin (bilinear-accelerated solver,                  *)
(* include/dirichlet/FillBiLin.hpp) with their helpers under               *)
(* include/dirichlet/impl.                                                 *)
(*                                                                         *)
(* Arithmetic: the solution vector is single-precision in the code; the    *)
(* model carries it as an exact rational <<n, d>> (d > 0, lowest terms).   *)
(* Arrays that the code indexes from 0 are functions on 0..n-1, except the *)
(* catalogues (coords_, lrtb_) which are sequences: catalogue index i of   *)
(* the code is position i+1 of the sequence.                               *)
(***************************************************************************)
EXTENDS Integers, Sequences, FiniteSets, TLC

VARIABLES
  pc,          \* "new", "constructed", "applied"; "thrown" when the constructor
               \* raised; "crashed" when operator() dereferenced a null solver
  kind,        \* which constructor ran: "coords", "mask" (Fill), "bilin" (FillBiLin)
  argCoords,   \* Fill(coords, ...): the caller's coordinate list
  argMask,     \* constructor argument: the caller's mask buffer
  argStride,   \* constructor argument: stride of the mask buffer
  wdth_, hght_, cg_,
  coords_, coordsMap_, lrtb_, a_,
  A_,          \* TRUE when the pointer to the Cholesky factorisation is not null
  weights_,    \* FillBiLin: <<lft, rgt, top, bot, cen>> for every pixel <<r, c>>
  extendedMask_, \* FillBiLin: [rows, cols, on], `on` the set of <<r, c>> that are true
  corners_,    \* FillBiLin: one <<top, lft, side>> per registered square
  compType,    \* template parameter Comp of operator(): "int", "unsigned", "float", "const"
  imStride,    \* stride passed to operator()
  imageIn,     \* the image buffer as passed to the last operator()
  image,       \* the image buffer after the last operator()
  bvec,        \* right-hand side assembled by the last solve()
  x,           \* solution returned by the last operator()
  running,     \* operator() calls running at once: per call, its position and locals
  m_iterations, \* per instance: CG_'s mutable member m_iterations
  m_error,     \* per instance: CG_'s mutable member m_error
  crn, cen,    \* df::interpolate: the corner values and the array it fills
  binArg,      \* BinPrep(a, e): the arguments [a, e]
  binPrep,     \* the BinPrep object: [maxBinFactor, bRows, bCols, extArray]
  binOut       \* the array returned by df::bin2x2(binPrep.extArray)

\* The members only FillBiLin has.
bilinVars == <<weights_, extendedMask_, corners_>>

\* The state of the calls that run side by side.
parVars == <<running, m_iterations, m_error>>

\* The state of the functions of namespace df.
dfVars == <<crn, cen, binArg, binPrep, binOut>>

vars == <<pc, kind, argCoords, argMask, argStride, wdth_, hght_, cg_,
          coords_, coordsMap_, lrtb_, a_, A_, bilinVars, compType, imStride,
          imageIn, image, bvec, x, parVars, dfVars>>

----------------------------------------------------------------------------
(* Bounds of the model. *)

MaxW == 4
MaxH == 4
MaxLen == 3
MaxStride == 2
BiSide == 12
MaxUnknowns == 3
AnalyseSide == 24
RoundMax == 25

----------------------------------------------------------------------------
(* Exact rationals <<n, d>>, d > 0, in lowest terms. *)

Abs(n) == IF n < 0 THEN -n ELSE n

RECURSIVE Gcd(_, _)
Gcd(m, n) == IF n = 0 THEN m ELSE Gcd(n, m % n)

Rat(n, d) ==
  LET s == IF d < 0 THEN -1 ELSE 1
      g == Gcd(Abs(n), Abs(d))
  IN  <<(s * n) \div g, (s * d) \div g>>

RInt(n) == <<n, 1>>
\* Common factors are taken out before the products, which keeps them small.
RAdd(p, q) ==
  LET g == Gcd(p[2], q[2])
  IN  Rat(p[1] * (q[2] \div g) + q[1] * (p[2] \div g), (p[2] \div g) * q[2])
RSub(p, q) ==
  LET g == Gcd(p[2], q[2])
  IN  Rat(p[1] * (q[2] \div g) - q[1] * (p[2] \div g), (p[2] \div g) * q[2])
RMul(p, q) ==
  LET g1 == Gcd(Abs(p[1]), q[2])
      g2 == Gcd(Abs(q[1]), p[2])
  IN  Rat((p[1] \div g1) * (q[1] \div g2), (p[2] \div g2) * (q[2] \div g1))
RDiv(p, q) ==
  LET g1 == IF p[1] = 0 /\ q[1] = 0 THEN 1 ELSE Gcd(Abs(p[1]), Abs(q[1]))
      g2 == Gcd(p[2], q[2])
  IN  Rat((p[1] \div g1) * (q[2] \div g2), (p[2] \div g2) * (q[1] \div g1))
RNeg(p) == <<-p[1], p[2]>>
RLt(p, q) ==
  LET g == Gcd(p[2], q[2])
  IN  p[1] * (q[2] \div g) < q[1] * (p[2] \div g)
RZero == RInt(0)
RHalf == <<1, 2>>

RECURSIVE RSum(_, _, _)
\* Sum of f[k] for k in lo..hi.
RSum(f, lo, hi) == IF hi < lo THEN RZero ELSE RAdd(f[hi], RSum(f, lo, hi - 1))

----------------------------------------------------------------------------
(* Fill: construction. *)

N == Len(coords_)

\* Column-major linear offset used for coordsMap_ (Eigen's default storage).
LinColMaj(r, c, h) == r + c * h

\* Row-major linear offset used for pixel data.
LinRowMaj(r, c, w) == c + r * w

\* initCoords with the upper tests written >= for >: the last legal row and
\* column are dropped as well.
FilterCoordsExclusive(coords, w, h) ==
  LET ok(e) == ~(e[1] < 1 \/ e[2] < 1 \/ e[1] >= h - 2 \/ e[2] >= w - 2)
  IN  SelectSeq(coords, ok)

\* Fill::initCoords, first part: coords_ keeps the entries inside the legal
\* window, in order.
FilterCoords(coords, w, h) ==
  LET b == 1
      rmin == b
      cmin == b
      rmax == h - 1 - b
      cmax == w - 1 - b
      ok(e) == ~(e[1] < rmin \/ e[2] < cmin \/ e[1] > rmax \/ e[2] > cmax)
  IN  SelectSeq(coords, ok)

\* Fill::initCoords, second part: cmap starts at -1 everywhere and m(lin) =
\* LinSpaced(n, 0, n-1) assigns 0..n-1 in order, so the last writer of a cell
\* stays.
BuildCoordsMap(cs, w, h) ==
  [k \in 0..(h * w - 1) |->
     LET hits == {i \in 1..Len(cs) : LinColMaj(cs[i][1], cs[i][2], h) = k}
     IN  IF hits = {} THEN -1
         ELSE (CHOOSE i \in hits : \A j \in hits : j <= i) - 1]

\* nVal with the boundary code taken from the column-major offset.
nValColMajor(cmap, r, c, w, h) ==
  IF cmap[LinColMaj(r, c, h)] = -1 THEN -1 - LinColMaj(r, c, h)
  ELSE cmap[LinColMaj(r, c, h)]

\* Fill::nVal for one neighbour (r, c).
nVal(cmap, r, c, w, h) ==
  LET nLinColMaj == LinColMaj(r, c, h)
      nLinRowMaj == LinRowMaj(r, c, w)
      a == cmap[nLinColMaj]
      b == IF a = -1 THEN 1 ELSE 0
  IN  b * (-1 - nLinRowMaj) + (1 - b) * a

nLft(cmap, e, w, h) == nVal(cmap, e[1], e[2] - 1, w, h)
nRgt(cmap, e, w, h) == nVal(cmap, e[1], e[2] + 1, w, h)
nTop(cmap, e, w, h) == nVal(cmap, e[1] - 1, e[2], w, h)
nBot(cmap, e, w, h) == nVal(cmap, e[1] + 1, e[2], w, h)

\* Fill::Fill, lines filling lrtb_.
BuildLrtb(cs, cmap, w, h) ==
  [i \in 1..Len(cs) |-> <<nLft(cmap, cs[i], w, h), nRgt(cmap, cs[i], w, h),
                          nTop(cmap, cs[i], w, h), nBot(cmap, cs[i], w, h)>>]

\* initMatrix with the tests written > 0 for >= 0: unknown 0 is never coupled.
RowTripletsPositive(lrtb, i) ==
  LET e == lrtb[i + 1]
  IN  <<<<i, i, 4>>>> \o
      (IF e[1] > 0 THEN <<<<i, e[1], -1>>>> ELSE <<>>) \o
      (IF e[2] > 0 THEN <<<<i, e[2], -1>>>> ELSE <<>>) \o
      (IF e[3] > 0 THEN <<<<i, e[3], -1>>>> ELSE <<>>) \o
      (IF e[4] > 0 THEN <<<<i, e[4], -1>>>> ELSE <<>>)

\* Fill::initMatrix: the triplets pushed for row i (0-based), as <<row, col, value>>.
RowTriplets(lrtb, i) ==
  LET e == lrtb[i + 1]
  IN  <<<<i, i, 4>>>> \o
      (IF e[1] >= 0 THEN <<<<i, e[1], -1>>>> ELSE <<>>) \o
      (IF e[2] >= 0 THEN <<<<i, e[2], -1>>>> ELSE <<>>) \o
      (IF e[3] >= 0 THEN <<<<i, e[3], -1>>>> ELSE <<>>) \o
      (IF e[4] >= 0 THEN <<<<i, e[4], -1>>>> ELSE <<>>)

RECURSIVE SumTriplets(_, _, _, _)
\* setFromTriplets: duplicates of an entry are summed.
SumTriplets(t, k, i, j) ==
  IF k = 0 THEN 0
  ELSE (IF t[k][1] = i /\ t[k][2] = j THEN t[k][3] ELSE 0) + SumTriplets(t, k - 1, i, j)

initMatrix(lrtb) ==
  LET n == Len(lrtb)
  IN  [i \in 0..(n - 1) |-> [j \in 0..(n - 1) |->
         SumTriplets(RowTriplets(lrtb, i), Len(RowTriplets(lrtb, i)), i, j)]]

\* findCoords reading the mask as if it had a single component.
RECURSIVE findCoordsDense(_, _, _, _, _, _)
findCoordsDense(m, w, h, stride, r, c) ==
  IF r >= h - 1 THEN <<>>
  ELSE IF c >= w - 1 THEN findCoordsDense(m, w, h, stride, r + 1, 1)
  ELSE (IF m[r * w + c] # 0 THEN <<<<r, c>>>> ELSE <<>>) \o
       findCoordsDense(m, w, h, stride, r, c + 1)

\* Fill::findCoords: row-major walk of the mask without its one-pixel edge.
RECURSIVE findCoordsFrom(_, _, _, _, _, _)
findCoordsFrom(m, w, h, stride, r, c) ==
  LET ew == 1
  IN  IF r >= h - ew THEN <<>>
      ELSE IF c >= w - ew THEN findCoordsFrom(m, w, h, stride, r + 1, ew)
      ELSE (IF m[(r * w + c) * stride] # 0 THEN <<<<r, c>>>> ELSE <<>>) \o
           findCoordsFrom(m, w, h, stride, r, c + 1)

findCoords(m, w, h, stride) ==
  LET ew == 1
  IN  IF h <= 2 * ew \/ w <= 2 * ew THEN <<>>
      ELSE findCoordsFrom(m, w, h, stride, ew, ew)

----------------------------------------------------------------------------
(* Inputs of the constructors. *)

Dims == (1..MaxW) \X (1..MaxH)

\* The smallest and the largest image size that leave room for an unknown
\* (findCoords: ew = 1).
DimsWithInterior == {3, MaxW} \X {3, MaxH}

\* Component strides: single-component and interleaved buffers.
Strides == {1, MaxStride}

Interior(w, h) == (1..(h - 2)) \X (1..(w - 2))

AllPix(w, h) == (0..(h - 1)) \X (0..(w - 1))

\* Three adjacent pixels next to the top-left corner; legal when the image is
\* large enough.
Block == {<<1, 1>>, <<1, 2>>, <<2, 1>>}

\* Coordinates a caller may pass: the block, a pixel on the top and on the
\* bottom edge, a negative column and a column beyond the right edge.
CallerCoords(w, h) == Block \cup {<<0, 1>>, <<h - 1, 1>>, <<1, -1>>, <<1, w>>}

\* A smaller choice: the legal pixels of the block and a pixel on the top edge.
FewCoords(w, h) == (Block \cap Interior(w, h)) \cup {<<0, 1>>}

RECURSIVE SeqsUpTo(_, _)
SeqsUpTo(S, n) ==
  IF n = 0 THEN {<<>>}
  ELSE LET shorter == SeqsUpTo(S, n - 1)
       IN  shorter \cup {Append(s, e) : s \in {t \in shorter : Len(t) = n - 1}, e \in S}

RECURSIVE SetsUpTo(_, _)
SetsUpTo(S, n) ==
  IF n = 0 THEN {{}}
  ELSE LET smaller == SetsUpTo(S, n - 1)
       IN  smaller \cup {s \cup {e} : s \in smaller, e \in S}

\* A mask buffer of w*h pixels with `stride` interleaved components: component
\* 0 is the mask (1 on the pixels of `holes`), every other component holds 1.
MaskBuffer(holes, w, h, stride) ==
  [k \in 0..(w * h * stride - 1) |->
     IF k % stride # 0 THEN 1
     ELSE IF <<(k \div stride) \div w, (k \div stride) % w>> \in holes THEN 1 ELSE 0]

\* Masks with up to MaxLen hole pixels among the legal pixels and the four
\* pixels next to the top-left corner, and the mask that is non-zero everywhere.
HoleSets(w, h) ==
  SetsUpTo((Interior(w, h) \cup {<<0, 0>>, <<0, 1>>, <<1, 0>>, <<1, 1>>}) \cap AllPix(w, h),
           MaxLen)
    \cup {AllPix(w, h)}

\* Masks with up to MaxLen hole pixels, all legal.
InteriorHoleSets(w, h) == SetsUpTo(Interior(w, h), MaxLen)

----------------------------------------------------------------------------
(* Fill: the two constructors. *)

Init ==
  /\ pc = "new"
  /\ kind = "none"
  /\ argCoords = <<>>
  /\ argMask = <<>>
  /\ argStride = 1
  /\ wdth_ = 0
  /\ hght_ = 0
  /\ cg_ = FALSE
  /\ coords_ = <<>>
  /\ coordsMap_ = <<>>
  /\ lrtb_ = <<>>
  /\ a_ = <<>>
  /\ compType = "int"
  /\ imStride = 1
  /\ imageIn = <<>>
  /\ image = <<>>
  /\ bvec = <<>>
  /\ x = <<>>
  /\ A_ = FALSE
  /\ weights_ = <<>>
  /\ extendedMask_ = <<>>
  /\ corners_ = <<>>
  /\ running = <<>>
  /\ m_iterations = <<>>
  /\ m_error = <<>>
  /\ crn = <<>>
  /\ cen = <<>>
  /\ binArg = <<>>
  /\ binPrep = <<>>
  /\ binOut = <<>>

\* Fill::Fill(coords, width, height, cg), the delegated-to constructor.
FillCtor(coords, w, h, cg) ==
  LET cs == FilterCoords(coords, w, h)
      cmap == BuildCoordsMap(cs, w, h)
      lrtb == BuildLrtb(cs, cmap, w, h)
  IN  /\ wdth_' = w
      /\ hght_' = h
      /\ cg_' = cg
      /\ coords_' = cs
      /\ coordsMap_' = cmap
      /\ lrtb_' = lrtb
      /\ a_' = initMatrix(lrtb)
      /\ A_' = ~cg
      /\ pc' = "constructed"

ConstructFromCoords(dims, Cand(_, _)) ==
  /\ UNCHANGED <<parVars, dfVars>>
  /\ pc = "new"
  /\ \E d \in dims, cg \in BOOLEAN :
       \E coords \in SeqsUpTo(Cand(d[1], d[2]), MaxLen) :
         /\ FillCtor(coords, d[1], d[2], cg)
         /\ kind' = "coords"
         /\ argCoords' = coords
  /\ UNCHANGED <<argMask, argStride, bilinVars, compType, imStride, imageIn, image, bvec, x>>

\* Fill::Fill(mask, width, height, stride, cg) delegates to the constructor
\* above with findCoords(mask, ...).
ConstructFromMask(dims, Holes(_, _)) ==
  /\ UNCHANGED <<parVars, dfVars>>
  /\ pc = "new"
  /\ \E d \in dims, cg \in BOOLEAN, stride \in Strides :
       \E holes \in Holes(d[1], d[2]) :
         LET m == MaskBuffer(holes, d[1], d[2], stride)
         IN  /\ FillCtor(findCoords(m, d[1], d[2], stride), d[1], d[2], cg)
             /\ kind' = "mask"
             /\ argMask' = m
             /\ argStride' = stride
  /\ UNCHANGED <<argCoords, bilinVars, compType, imStride, imageIn, image, bvec, x>>

----------------------------------------------------------------------------
(* Fill: operator(), solve and copySolutionBackIntoImage. *)

\* Map im(image, hght_ * wdth_, 1, ImageStride(1, stride)): element k of the
\* single-column map is at k * stride in the buffer.
MapOffset(k, stride) == k * stride

\* solve without the factor f: an unknown neighbour contributes im(0).
BoundaryTermUnmasked(buf, stride, e) ==
  buf[MapOffset(IF e < 0 THEN -e - 1 ELSE 0, stride)]

\* Fill::solve, the part for one column of lrtb_: f * im(i), in which the
\* offset is clamped to 0 when the entry names an unknown.
BoundaryTerm(buf, stride, e) ==
  LET f == IF e < 0 THEN 1 ELSE 0
      i == f * (-e - 1)
  IN  RMul(RInt(f), buf[MapOffset(i, stride)])

\* Fill::solve: the right-hand side b = bL + bR + bT + bB.
solveB(lrtb, buf, stride) ==
  [i \in 0..(Len(lrtb) - 1) |->
     RAdd(RAdd(BoundaryTerm(buf, stride, lrtb[i + 1][1]),
               BoundaryTerm(buf, stride, lrtb[i + 1][2])),
          RAdd(BoundaryTerm(buf, stride, lrtb[i + 1][3]),
               BoundaryTerm(buf, stride, lrtb[i + 1][4])))]

IsSymmetric(A, n) == \A i, j \in 0..(n - 1) : A[i][j] = A[j][i]

\* The matrix the factorisation works on: SimplicialCholesky reads the lower
\* triangle only; ConjugateGradient<., Lower|Upper> reads both triangles.
EffectiveMatrix(A, n, cg) ==
  IF cg THEN A
  ELSE [i \in 0..(n - 1) |-> [j \in 0..(n - 1) |-> IF j <= i THEN A[i][j] ELSE A[j][i]]]

RECURSIVE RowAxpy(_, _, _, _)
\* Columns j.. of the row ri - f * rk.
RowAxpy(ri, f, rk, j) ==
  IF j > Len(ri) THEN <<>>
  ELSE <<RSub(ri[j], RMul(f, rk[j]))>> \o RowAxpy(ri, f, rk, j + 1)

RECURSIVE Eliminate(_, _, _)
\* Rows i.. of M after column k has been cleared from every row but row k.
Eliminate(M, k, i) ==
  IF i > Len(M) THEN <<>>
  ELSE <<IF i = k THEN M[k]
         ELSE RowAxpy(M[i], RDiv(M[i][k], M[k][k]), M[k], 1)>>
       \o Eliminate(M, k, i + 1)

RECURSIVE GaussJordan(_, _)
\* Exact elimination on the augmented matrix M (a sequence of n rows of n + 1
\* entries), from column k on; the empty tuple when a column has no pivot
\* (singular matrix).
GaussJordan(M, k) ==
  IF k > Len(M) THEN M
  ELSE LET cand == {p \in k..Len(M) : M[p][k][1] # 0}
       IN  IF cand = {} THEN <<>>
           ELSE LET p == CHOOSE q \in cand : \A q2 \in cand : q <= q2
                IN  GaussJordan(Eliminate([M EXCEPT ![k] = M[p], ![p] = M[k]], k, 1),
                                k + 1)

RECURSIVE AugmentedRow(_, _, _, _, _)
\* Columns j.. of row i of the augmented matrix [A | b].
AugmentedRow(A, b, n, i, j) ==
  IF j = n THEN <<b[i]>>
  ELSE <<RInt(A[i][j])>> \o AugmentedRow(A, b, n, i, j + 1)

RECURSIVE Augmented(_, _, _, _)
\* Rows i.. of the augmented matrix [A | b].
Augmented(A, b, n, i) ==
  IF i = n THEN <<>>
  ELSE <<AugmentedRow(A, b, n, i, 0)>> \o Augmented(A, b, n, i + 1)

\* The exact solution of A x = b, or <<>> when A is singular.
LinSolve(A, b, n) ==
  LET G == GaussJordan(Augmented(A, b, n, 0), 1)
  IN  IF n = 0 THEN <<>>
      ELSE IF G = <<>> THEN <<>>
      ELSE [i \in 0..(n - 1) |-> RDiv(G[i + 1][n + 1], G[i + 1][i + 1])]

\* What the solver leaves in x when the matrix is singular.
Unspecified(n) == {[i \in 0..(n - 1) |-> g] : g \in {RInt(0), RInt(3)}}

\* Fill::solve, the last lines: the set of vectors the solver may return.  Both
\* solvers are taken as exact and converged: the solution of the system they
\* were given.
solveX(A, b, n, cg) ==
  LET E == EffectiveMatrix(A, n, cg)
      s == LinSolve(E, b, n)
  IN  IF n = 0 THEN {<<>>}
      ELSE IF s = <<>> THEN Unspecified(n)
      ELSE {s}

\* The signed branch written like the unsigned one: x + 0.5 truncated.
RoundSignedHalfUp(q) ==
  LET t == RAdd(q, RHalf)
  IN  IF t[1] < 0 THEN -((-t[1]) \div t[2]) ELSE t[1] \div t[2]

\* static_cast<Comp>(float) for an integer Comp: truncation toward zero.
Trunc(q) == IF q[1] < 0 THEN -((-q[1]) \div q[2]) ELSE q[1] \div q[2]

\* copySolutionBackIntoImage, the value stored for one solution value.
RoundUnsigned(q) == Trunc(RAdd(q, RHalf))

RoundSigned(q) ==
  LET neg == IF RLt(q, RZero) THEN 1 ELSE 0
      rup == Trunc(RAdd(q, RHalf))
      rdn == Trunc(RSub(q, RHalf))
  IN  neg * rdn + (1 - neg) * rup

Stored(q, comp) ==
  IF comp = "unsigned" THEN RInt(RoundUnsigned(q))
  ELSE IF comp = "int" THEN RInt(RoundSigned(q))
  ELSE q

\* The write-back with the pixel index taken column-major, as coordsMap_ is.
copySolutionBackColMajor(buf, stride, cs, w, xs, comp) ==
  [k \in DOMAIN buf |->
     LET hits == {i \in 1..Len(cs) :
                    MapOffset(cs[i][1] + cs[i][2] * hght_, stride) = k}
     IN  IF hits = {} THEN buf[k]
         ELSE Stored(xs[(CHOOSE i \in hits : \A j \in hits : j <= i) - 1], comp)]

\* copySolutionBackIntoImage: im(ii) = ..., assigned in catalogue order, so the
\* last catalogue row of a pixel stays.
copySolutionBackIntoImage(buf, stride, cs, w, xs, comp) ==
  [k \in DOMAIN buf |->
     LET hits == {i \in 1..Len(cs) :
                    MapOffset(cs[i][1] * w + cs[i][2], stride) = k}
     IN  IF hits = {} THEN buf[k]
         ELSE Stored(xs[(CHOOSE i \in hits : \A j \in hits : j <= i) - 1], comp)]

\* Fill::operator(): write-back iff Comp is not const and is arithmetic.
FillApply(buf, stride, comp) ==
  LET b == solveB(lrtb_, buf, stride)
  IN  \E xs \in solveX(a_, b, N, cg_) :
        /\ bvec' = b
        /\ x' = xs
        /\ imageIn' = buf
        /\ image' = IF comp = "const" THEN buf
                    ELSE copySolutionBackIntoImage(buf, stride, coords_, wdth_, xs, comp)
        /\ imStride' = stride
        /\ compType' = comp
        /\ pc' = "applied"

----------------------------------------------------------------------------
(* Images passed to operator(). *)

CompTypes == {"int", "unsigned", "float", "const"}

Families == {"affine", "quadratic", "negative"}

\* The value of pixel (r, c) outside the hole.
PixelValue(fam, r, c, w) ==
  IF fam = "affine" THEN r + 2 * c + 1
  ELSE IF fam = "quadratic" THEN (r * w + c) * (r * w + c)
  ELSE IF fam = "zeroTop" THEN (IF r < 3 THEN 0 ELSE (r * w + c) * (r * w + c))
  ELSE -((r * w + c) * (r * w + c)) - 1

\* An image buffer with `stride` interleaved components: component 0 is the
\* image, holding `junk` on the pixels of `hole`; every other component holds 55.
ImageBuffer(fam, junk, hole, w, h, stride) ==
  [k \in 0..(w * h * stride - 1) |->
     IF k % stride # 0 THEN RInt(55)
     ELSE LET r == (k \div stride) \div w
              c == (k \div stride) % w
          IN  IF <<r, c>> \in hole THEN RInt(junk) ELSE RInt(PixelValue(fam, r, c, w))]

Catalogue == {coords_[i] : i \in 1..Len(coords_)}

Apply ==
  /\ UNCHANGED <<parVars, dfVars>>
  /\ pc = "constructed"
  /\ kind \in {"coords", "mask"}
  /\ \E fam \in Families, comp \in CompTypes, stride \in Strides :
       /\ comp = "unsigned" => fam # "negative"
       /\ FillApply(ImageBuffer(fam, 77, Catalogue, wdth_, hght_, stride), stride, comp)
  /\ UNCHANGED <<kind, argCoords, argMask, argStride, wdth_, hght_, cg_,
                 coords_, coordsMap_, lrtb_, a_, A_, bilinVars>>

\* operator() called again on the buffer the previous call left.
Reapply ==
  /\ UNCHANGED <<parVars, dfVars>>
  /\ pc = "applied"
  /\ kind \in {"coords", "mask"}
  /\ FillApply(image, imStride, compType)
  /\ UNCHANGED <<kind, argCoords, argMask, argStride, wdth_, hght_, cg_,
                 coords_, coordsMap_, lrtb_, a_, A_, bilinVars>>

----------------------------------------------------------------------------
(* FillBiLin: construction.  A boolean array is a record [rows, cols, on] in
   which `on` is the set of positions <<r, c>> that hold true. *)

RECURSIVE pow2From(_, _)
pow2From(r, i) == IF r < i THEN pow2From(2 * r, i) ELSE r

\* impl::pow2: the smallest power of two >= i (it throws at 2^30, far above the
\* sizes used here).
pow2(i) == pow2From(1, i)

\* impl::ImageMap<P>(ptr, h, w, stride): a row-major h x w map whose stride is
\* Eigen::Stride<1, Dynamic>(1, stride).  The outer stride (from one row to the
\* next) is the compile-time 1 and the inner stride (from one column to the
\* next) is `stride`, so element (r, c) is at r * 1 + c * stride.
ImageMapOffset(r, c, stride) == r * 1 + c * stride

Cells(nr, nc) == (0..(nr - 1)) \X (0..(nc - 1))

\* FillBiLin::extendMask.
extendMask(msk, w, h, stride) ==
  [rows |-> pow2(h), cols |-> pow2(w),
   on |-> {e \in Cells(h, w) : msk[ImageMapOffset(e[1], e[2], stride)] # 0}]

\* impl::bin2x2: the cases that throw, and the binned array.
bin2x2Throws(a) ==
  \/ a.rows < 2
  \/ a.cols < 2
  \/ a.rows # (a.rows \div 2) * 2
  \/ a.cols # (a.cols \div 2) * 2

bin2x2(a) ==
  [rows |-> a.rows \div 2, cols |-> a.cols \div 2,
   on |-> {e \in Cells(a.rows \div 2, a.cols \div 2) :
             /\ <<2 * e[1], 2 * e[2]>> \in a.on
             /\ <<2 * e[1] + 1, 2 * e[2]>> \in a.on
             /\ <<2 * e[1], 2 * e[2] + 1>> \in a.on
             /\ <<2 * e[1] + 1, 2 * e[2] + 1>> \in a.on}]

\* impl::unbin2x2: LinSpaced(2n, 0, n-1) on integers is 0, 0, 1, 1, ...
unbin2x2(a) ==
  [rows |-> 2 * a.rows, cols |-> 2 * a.cols,
   on |-> {e \in Cells(2 * a.rows, 2 * a.cols) : <<e[1] \div 2, e[2] \div 2>> \in a.on}]

\* impl::validSquare: it throws on an array with fewer than 3 rows or columns;
\* otherwise an element is true iff it and its four neighbours are true.
validSquareThrows(a) == a.rows < 3 \/ a.cols < 3

validSquare(a) ==
  [rows |-> a.rows, cols |-> a.cols,
   on |-> {e \in a.on :
             /\ 1 <= e[1] /\ e[1] <= a.rows - 2
             /\ 1 <= e[2] /\ e[2] <= a.cols - 2
             /\ <<e[1] - 1, e[2]>> \in a.on
             /\ <<e[1] + 1, e[2]>> \in a.on
             /\ <<e[1], e[2] - 1>> \in a.on
             /\ <<e[1], e[2] + 1>> \in a.on}]

RECURSIVE registerSquaresFrom(_, _, _)
registerSquaresFrom(valid, bf, k) ==
  IF k >= valid.rows * valid.cols THEN <<>>
  ELSE (IF <<k % valid.rows, k \div valid.rows>> \in valid.on
        THEN <<<<k % valid.rows, k \div valid.rows, bf>>>>
        ELSE <<>>) \o registerSquaresFrom(valid, bf, k + 1)

\* FillBiLin::registerSquares: the calls registerSquare(r, c, bf) it makes, in
\* the order of its loops (columns outside, rows inside).
registerSquares(valid, bf) == registerSquaresFrom(valid, bf, 0)

RECURSIVE binMaskKeepingAll(_, _)
\* binMask without `&& !unbin2x2(...)`: the cells under a larger square stay.
binMaskKeepingAll(hi, bf) ==
  LET lo == bin2x2(hi)
      loValid == validSquare(lo)
  IN  IF lo.rows >= 8 /\ lo.cols >= 8
      THEN [valid |-> loValid,
            calls |-> binMaskKeepingAll(lo, bf * 2).calls \o registerSquares(loValid, bf)]
      ELSE [valid |-> loValid, calls |-> registerSquares(loValid, bf)]

RECURSIVE binMask(_, _)
\* FillBiLin::binMask: the array it returns and the registerSquare calls made
\* by it and by the calls below it, in order.
binMask(hi, bf) ==
  LET lo == bin2x2(hi)
      loValid == validSquare(lo)
  IN  IF lo.rows >= 8 /\ lo.cols >= 8
      THEN LET deeper == binMask(lo, bf * 2)
               taken == unbin2x2(deeper.valid)
           IN  [valid |-> loValid,
                calls |-> deeper.calls \o
                          registerSquares([loValid EXCEPT !.on = @ \ taken.on], bf)]
      ELSE [valid |-> loValid, calls |-> registerSquares(loValid, bf)]

\* The first call of binMask throws when its binned array is too small for
\* validSquare; the calls below it work on arrays of at least 4 x 4.
binMaskThrows(hi) == bin2x2Throws(hi) \/ validSquareThrows(bin2x2(hi))

\* registerSquareWeights with the centre weight of the corners on the edges too.
registerSquareWeightsUniform(wts, top, lft, bot, rgt) ==
  [e \in DOMAIN wts |->
     LET crnrRow == e[1] \in {top, bot}
         crnrCol == e[2] \in {lft, rgt}
         edgeRow == top + 1 <= e[1] /\ e[1] <= bot - 1
         edgeCol == lft + 1 <= e[2] /\ e[2] <= rgt - 1
     IN  IF crnrRow /\ crnrCol THEN <<1, 1, 1, 1, -4>>
         ELSE IF edgeRow /\ crnrCol THEN <<0, 0, 1, 1, -4>>
         ELSE IF crnrRow /\ edgeCol THEN <<1, 1, 0, 0, -4>>
         ELSE wts[e]]

\* FillBiLin::registerSquareWeights.
registerSquareWeights(wts, top, lft, bot, rgt) ==
  [e \in DOMAIN wts |->
     LET crnrRow == e[1] \in {top, bot}
         crnrCol == e[2] \in {lft, rgt}
         edgeRow == top + 1 <= e[1] /\ e[1] <= bot - 1
         edgeCol == lft + 1 <= e[2] /\ e[2] <= rgt - 1
     IN  IF crnrRow /\ crnrCol THEN <<1, 1, 1, 1, -4>>
         ELSE IF edgeRow /\ crnrCol THEN <<0, 0, 1, 1, -2>>
         ELSE IF crnrRow /\ edgeCol THEN <<1, 1, 0, 0, -2>>
         ELSE wts[e]]

\* FillBiLin::eliminateSquareFromMask.
eliminateSquareFromMask(ext, top, lft, bot, rgt) ==
  [ext EXCEPT !.on = @ \ ((top..bot) \X (lft..rgt))]

\* FillBiLin::registerSquare on the members st = [weights, ext, cmap, corners].
registerSquare(st, r, c, bf, h) ==
  LET top == r * bf
      lft == c * bf
      bot == top + bf - 1
      rgt == lft + bf - 1
  IN  [weights |-> registerSquareWeights(st.weights, top, lft, bot, rgt),
       ext     |-> eliminateSquareFromMask(st.ext, top, lft, bot, rgt),
       corners |-> Append(st.corners, <<top, lft, bf>>),
       cmap    |-> [k \in DOMAIN st.cmap |->
                      IF /\ top + 1 <= k % h /\ k % h <= bot - 1
                         /\ lft + 1 <= k \div h /\ k \div h <= rgt - 1
                      THEN -2 ELSE st.cmap[k]]]

RECURSIVE registerAll(_, _, _, _)
registerAll(st, calls, k, h) ==
  IF k > Len(calls) THEN st
  ELSE registerAll(registerSquare(st, calls[k][1], calls[k][2], calls[k][3], h),
                   calls, k + 1, h)

\* FillBiLin::populateCornerWeights.
populateCornerWeights(wts, ext, h, w) ==
  [e \in DOMAIN wts |->
     IF e \notin ext.on THEN wts[e]
     ELSE IF e = <<0, 0>> THEN <<wts[e][1], 1, wts[e][3], 1, -2>>
     ELSE IF e = <<0, w - 1>> THEN <<1, wts[e][2], wts[e][3], 1, -2>>
     ELSE IF e = <<h - 1, w - 1>> THEN <<1, wts[e][2], 1, wts[e][4], -2>>
     ELSE IF e = <<h - 1, 0>> THEN <<wts[e][1], 1, 1, wts[e][4], -2>>
     ELSE wts[e]]

\* FillBiLin::populateEdgeWeights.
populateEdgeWeights(wts, ext, h, w) ==
  [e \in DOMAIN wts |->
     LET m == IF e \in ext.on THEN 1 ELSE 0
         row == 1 <= e[1] /\ e[1] <= h - 2
         col == 1 <= e[2] /\ e[2] <= w - 2
     IN  IF row /\ e[2] = 0 THEN <<wts[e][1], m, m, m, -3 * m>>
         ELSE IF col /\ e[1] = 0 THEN <<m, m, wts[e][3], m, -3 * m>>
         ELSE IF row /\ e[2] = w - 1 THEN <<m, wts[e][2], m, m, -3 * m>>
         ELSE IF col /\ e[1] = h - 1 THEN <<m, m, m, wts[e][4], -3 * m>>
         ELSE wts[e]]

\* FillBiLin::populateInteriorWeights.
populateInteriorWeights(wts, ext, h, w) ==
  [e \in DOMAIN wts |->
     LET m == IF e \in ext.on THEN 1 ELSE 0
     IN  IF 1 <= e[1] /\ e[1] <= h - 2 /\ 1 <= e[2] /\ e[2] <= w - 2
         THEN <<wts[e][1] + m, wts[e][2] + m, wts[e][3] + m, wts[e][4] + m,
                wts[e][5] - 4 * m>>
         ELSE wts[e]]

\* FillBiLin::initMatrix, the first loops: the pixels with a non-zero centre
\* weight, columns outside and rows inside.
solvePix(wts, h, w) ==
  LET cenNonZero(e) == wts[e][5] # 0
  IN  SelectSeq([k \in 1..(h * w) |-> <<(k - 1) % h, (k - 1) \div h>>], cenNonZero)

\* FillBiLin::initMatrix: coordsMap_.reshaped()(lo) = LinSpaced(...).
solveMap(cmap, cs, h) ==
  [k \in DOMAIN cmap |->
     LET hits == {i \in 1..Len(cs) : cs[i][1] + cs[i][2] * h = k}
     IN  IF hits = {} THEN cmap[k]
         ELSE (CHOOSE i \in hits : \A j \in hits : j <= i) - 1]

\* FillBiLin::initMatrix: the triplets pushed for row i (0-based).
biLinTriplets(wts, ext, cmap, cs, i, h, w) ==
  LET r == cs[i + 1][1]
      c == cs[i + 1][2]
      lw == wts[<<r, c>>][1]
      rw == wts[<<r, c>>][2]
      tw == wts[<<r, c>>][3]
      bw == wts[<<r, c>>][4]
      lftSolv == c > 0 /\ <<r, c - 1>> \in ext.on
      topSolv == r > 0 /\ <<r - 1, c>> \in ext.on
      rgtSolv == c < w - 1 /\ <<r, c + 1>> \in ext.on
      botSolv == r < h - 1 /\ <<r + 1, c>> \in ext.on
  IN  <<<<i, i, wts[<<r, c>>][5]>>>> \o
      (IF lw # 0 /\ lftSolv THEN <<<<i, cmap[r + (c - 1) * h], lw>>>> ELSE <<>>) \o
      (IF rw # 0 /\ rgtSolv THEN <<<<i, cmap[r + (c + 1) * h], rw>>>> ELSE <<>>) \o
      (IF tw # 0 /\ topSolv THEN <<<<i, cmap[(r - 1) + c * h], tw>>>> ELSE <<>>) \o
      (IF bw # 0 /\ botSolv THEN <<<<i, cmap[(r + 1) + c * h], bw>>>> ELSE <<>>)

\* setFromTriplets for one row.
rowFromTriplets(t, i, n) == [j \in 0..(n - 1) |-> SumTriplets(t, Len(t), i, j)]

\* FillBiLin::FillBiLin: the members after the constructor, by the place where
\* it leaves: the two early returns, the exception out of binMask, and the end.
FillBiLinCtor(msk, w, h, stride) ==
  LET ext0 == extendMask(msk, w, h, stride)
      wts0 == [e \in Cells(h, w) |-> <<0, 0, 0, 0, 0>>]
      cmap0 == [k \in 0..(h * w - 1) |-> -1]
      m1 == bin2x2(ext0)
      st == registerAll([weights |-> wts0, ext |-> ext0, cmap |-> cmap0, corners |-> <<>>],
                        binMask(m1, 4).calls, 1, h)
      wts == populateInteriorWeights(
               populateEdgeWeights(
                 populateCornerWeights(st.weights, st.ext, h, w), st.ext, h, w),
               st.ext, h, w)
      cs == solvePix(wts, h, w)
      cmap == solveMap(st.cmap, cs, h)
      early == ext0.rows < 2 \/ ext0.cols < 2 \/ m1.rows < 2 \/ m1.cols < 2
      throws == ~early /\ binMaskThrows(m1)
      done == ~early /\ ~throws
  IN  /\ wdth_' = w
      /\ hght_' = h
      /\ pc' = IF throws THEN "thrown" ELSE "constructed"
      /\ A_' = done
      /\ extendedMask_' = IF done THEN st.ext ELSE ext0
      /\ weights_' = IF done THEN wts ELSE wts0
      /\ corners_' = IF done THEN st.corners ELSE <<>>
      /\ coordsMap_' = IF done THEN cmap ELSE cmap0
      /\ a_' = IF done
               THEN [i \in 0..(Len(cs) - 1) |->
                       rowFromTriplets(biLinTriplets(wts, st.ext, cmap, cs, i, h, w),
                                       i, Len(cs))]
               ELSE <<>>
      /\ \E garbage \in {<<0, 0>>, <<h, w>>} :
           \* coords_(h * w, 2) is allocated without values and filled by
           \* initMatrix only.
           coords_' = IF done THEN cs
                      ELSE IF throws THEN <<>>
                      ELSE [k \in 1..(h * w) |-> garbage]

\* Image sides: two that return early (the padded mask, or the binned one, is
\* too small), the smallest and the largest that make binMask throw, the
\* smallest that constructs, and one with room for a square.
BiLinSides == {1, 2, 3, 8, 9, BiSide}

\* Mask buffers: non-zero exactly on the offsets first..last.
MaskRuns == {<<0, 0>>, <<0, 1>>, <<4, 4>>, <<13, 13>>, <<4, 18>>}

RunBuffer(run, w, h, stride) ==
  [k \in 0..(w * h * stride - 1) |-> IF run[1] <= k /\ k <= run[2] THEN 1 ELSE 0]

\* The mask buffer of a caller who marks rows 3..8 of columns 3..8 of a
\* row-major w x h image (as much of that block as the image holds).
BlockBuffer(w, h, stride) ==
  [k \in 0..(w * h * stride - 1) |->
     IF /\ k % stride = 0
        /\ (k \div stride) \div w \in 3..8
        /\ (k \div stride) % w \in 3..8
     THEN 1 ELSE 0]

MaskBuffers(w, h, stride) ==
  {RunBuffer(run, w, h, stride) : run \in MaskRuns} \cup {BlockBuffer(w, h, stride)}

ConstructBiLin ==
  /\ UNCHANGED <<parVars, dfVars>>
  /\ pc = "new"
  /\ \E w \in BiLinSides, h \in BiLinSides, stride \in Strides :
     \E m \in MaskBuffers(w, h, stride) :
           /\ FillBiLinCtor(m, w, h, stride)
           /\ kind' = "bilin"
           /\ argMask' = m
           /\ argStride' = stride
  /\ UNCHANGED <<argCoords, cg_, lrtb_, compType, imStride, imageIn, image, bvec, x>>

----------------------------------------------------------------------------
(* FillBiLin: operator(), solve and copySolutionBackIntoImage. *)

\* extendedMask_.reshaped()(k): column-major over the rows of extendedMask_.
extFlat(ext, k) == <<k % ext.rows, k \div ext.rows>> \in ext.on

\* imf.reshaped()(k): column-major over the h rows of the logical image.
imFlat(buf, stride, h, k) == buf[ImageMapOffset(k % h, k \div h, stride)]

\* FillBiLin::solve, one neighbour: w * f * imf(off) with
\* f = (1 - fn) * (w != 0).
biLinTerm(wt, off, buf, stride, ext, h) ==
  LET fn == IF extFlat(ext, off) THEN 1 ELSE 0
      f == (1 - fn) * (IF wt # 0 THEN 1 ELSE 0)
  IN  RMul(RInt(wt * f), imFlat(buf, stride, h, off))

\* FillBiLin::solve: b = nt + nb + nl + nr.
biLinSolveB(cs, wts, ext, buf, stride, h) ==
  [i \in 0..(Len(cs) - 1) |->
     LET r == cs[i + 1][1]
         c == cs[i + 1][2]
         wl == wts[<<r, c>>][1]
         wr == wts[<<r, c>>][2]
         wt == wts[<<r, c>>][3]
         wb == wts[<<r, c>>][4]
         rt == (IF wt # 0 THEN 1 ELSE 0) * (r - 1)
         rb == (IF wb # 0 THEN 1 ELSE 0) * (r + 1)
         cl == (IF wl # 0 THEN 1 ELSE 0) * (c - 1)
         cr == (IF wr # 0 THEN 1 ELSE 0) * (c + 1)
     IN  RAdd(RAdd(biLinTerm(wt, rt + h * c, buf, stride, ext, h),
                   biLinTerm(wb, rb + h * c, buf, stride, ext, h)),
              RAdd(biLinTerm(wl, r + h * cl, buf, stride, ext, h),
                   biLinTerm(wr, r + h * cr, buf, stride, ext, h)))]

\* FillBiLin::copySolutionBackIntoImage: im.reshaped()(ii) = ..., ii = r + h * c.
biLinCopyBack(buf, stride, cs, xs, comp) ==
  [k \in DOMAIN buf |->
     LET hits == {i \in 1..Len(cs) : ImageMapOffset(cs[i][1], cs[i][2], stride) = k}
     IN  IF hits = {} THEN buf[k]
         ELSE Stored(xs[(CHOOSE i \in hits : \A j \in hits : j <= i) - 1], comp)]

IsDiagonal(A, n) == \A i, j \in 0..(n - 1) : i # j => A[i][j] = 0

\* The systems solved here by elimination: those with at most MaxUnknowns
\* unknowns and those in which no two unknowns are coupled.
Solvable == N <= MaxUnknowns \/ IsDiagonal(a_, N)

IsZeroVector(b) == \A i \in DOMAIN b : b[i] = RZero

\* A_->solve(-b).  A larger coupled system is solved only for b = 0, where the
\* solver returns the zero vector: the matrix the factorization works on has a
\* non-zero diagonal, dominant in every row and strictly so in the rows next to
\* pixels that are not unknowns, so it is not singular.
biLinSolveX(b) ==
  IF Solvable THEN solveX(a_, [i \in 0..(N - 1) |-> RNeg(b[i])], N, FALSE)
  ELSE {[i \in 0..(N - 1) |-> RZero]}

\* FillBiLin::operator(): solve, then the write-back.
BiLinApply(buf, stride, comp, after) ==
  LET b == biLinSolveB(coords_, weights_, extendedMask_, buf, stride, hght_)
  IN  /\ Solvable \/ IsZeroVector(b)
      /\ \E xs \in biLinSolveX(b) :
           /\ bvec' = b
           /\ x' = xs
           /\ imageIn' = buf
           /\ image' = IF comp = "const" THEN buf
                       ELSE biLinCopyBack(buf, stride, coords_, xs, comp)
           /\ imStride' = stride
           /\ compType' = comp
           /\ pc' = after

\* The pixels the caller marked in the mask buffer, read row-major.
CallerHole ==
  {e \in Cells(hght_, wdth_) : argMask[(e[1] * wdth_ + e[2]) * argStride] # 0}

\* Images given to FillBiLin::operator(): those given to Fill::operator() and
\* one that is zero on its first three rows, hole included.
BiLinFamilies == Families \cup {"zeroTop"}

\* operator() on a FillBiLin; on an instance whose constructor returned early
\* A_ is null and A_->solve is a null dereference.
ApplyBiLin ==
  /\ UNCHANGED <<parVars, dfVars>>
  /\ pc = "constructed"
  /\ kind = "bilin"
  /\ \E fam \in BiLinFamilies, comp \in CompTypes \ {"unsigned"}, stride \in Strides :
       IF A_
       THEN BiLinApply(ImageBuffer(fam, IF fam = "zeroTop" THEN 0 ELSE 77, CallerHole,
                                   wdth_, hght_, stride),
                       stride, comp, "applied")
       ELSE /\ pc' = "crashed"
            /\ UNCHANGED <<compType, imStride, imageIn, image, bvec, x>>
  /\ UNCHANGED <<kind, argCoords, argMask, argStride, wdth_, hght_, cg_,
                 coords_, coordsMap_, lrtb_, a_, A_, bilinVars>>

\* operator() called a second time, on the buffer the first call left.
ReapplyBiLin ==
  /\ UNCHANGED <<parVars, dfVars>>
  /\ pc = "applied"
  /\ kind = "bilin"
  /\ BiLinApply(image, imStride, compType, "reapplied")
  /\ UNCHANGED <<kind, argCoords, argMask, argStride, wdth_, hght_, cg_,
                 coords_, coordsMap_, lrtb_, a_, A_, bilinVars>>

NextBiLin == ConstructBiLin \/ ApplyBiLin \/ ReapplyBiLin

----------------------------------------------------------------------------
(* The write-back on its own: one solution value stored into one pixel. *)

\* Solution values: the halves and the tenths between -RoundMax/2 and
\* RoundMax/2.
RoundInputs == {Rat(k, d) : k \in (-RoundMax)..RoundMax, d \in {2, 10}}

RoundStart ==
  /\ UNCHANGED <<parVars, dfVars>>
  /\ pc = "new"
  /\ kind = "none"
  /\ \E q \in RoundInputs, comp \in CompTypes \ {"const"} :
       /\ comp = "unsigned" => ~RLt(q, RZero)
       /\ x' = [i \in {0} |-> q]
       /\ compType' = comp
  /\ kind' = "value"
  /\ UNCHANGED <<pc, argCoords, argMask, argStride, wdth_, hght_, cg_, coords_,
                 coordsMap_, lrtb_, a_, A_, bilinVars, imStride, imageIn, image, bvec>>

\* copySolutionBackIntoImage on a one-pixel image whose only pixel is unknown 0.
RoundStore ==
  /\ UNCHANGED <<parVars, dfVars>>
  /\ pc = "new"
  /\ kind = "value"
  /\ imageIn' = [k \in {0} |-> RInt(77)]
  /\ image' = copySolutionBackIntoImage([k \in {0} |-> RInt(77)], 1, <<<<0, 0>>>>, 1,
                                        x, compType)
  /\ pc' = "applied"
  /\ UNCHANGED <<kind, argCoords, argMask, argStride, wdth_, hght_, cg_, coords_,
                 coordsMap_, lrtb_, a_, A_, bilinVars, compType, imStride, bvec, x>>

NextRound == RoundStart \/ RoundStore

SpecRound == Init /\ [][NextRound]_vars

SpecBiLin == Init /\ [][NextBiLin]_vars

----------------------------------------------------------------------------
(* FillBiLin's analysis of the mask on larger images: the constructor from
   extendMask to the return of binMask, the part that registers squares.  What
   follows in the constructor leaves corners_ as it is. *)

AnalyseSides == {BiSide, AnalyseSide}

AnalyseRuns == {<<a, b>> : a \in {0, 3, 4, 8}, b \in {18, 30, 38, 46}}

AnalyseMask ==
  /\ UNCHANGED <<parVars, dfVars>>
  /\ pc = "new"
  /\ \E w \in AnalyseSides, h \in AnalyseSides, stride \in Strides, run \in AnalyseRuns :
       LET m == RunBuffer(run, w, h, stride)
           ext0 == extendMask(m, w, h, stride)
           st == registerAll([weights |-> [e \in Cells(h, w) |-> <<0, 0, 0, 0, 0>>],
                              ext |-> ext0,
                              cmap |-> [k \in 0..(h * w - 1) |-> -1],
                              corners |-> <<>>],
                             binMask(bin2x2(ext0), 4).calls, 1, h)
       IN  /\ wdth_' = w
           /\ hght_' = h
           /\ argMask' = m
           /\ argStride' = stride
           /\ extendedMask_' = st.ext
           /\ weights_' = st.weights
           /\ corners_' = st.corners
           /\ coordsMap_' = st.cmap
  /\ kind' = "bilin"
  /\ pc' = "analysed"
  /\ UNCHANGED <<argCoords, cg_, coords_, lrtb_, a_, A_, compType, imStride,
                 imageIn, image, bvec, x>>

NextAnalyse == AnalyseMask

SpecAnalyse == Init /\ [][NextAnalyse]_vars

(* Two calls of Fill::operator() that run at once, each on an image buffer of
   its own, on one instance or on two instances built from the same arguments.
   With cg_ set, solve() calls Eigen's ConjugateGradient::solve, a const member
   that works through the solver's mutable members m_iterations and m_error:
   it stores the iteration limit and the tolerance in them and passes them by
   reference to conjugate_gradient, which reads both on entry and overwrites
   both on return.  m_error is kept here as its square; the default tolerance,
   the float epsilon, as the flag `eps`. *)

NumCalls == 2

CallIds == 1..NumCalls

\* Catalogues of the instance the calls use.
ParCatalogues == {<<<<1, 1>>>>, <<<<1, 1>>, <<1, 2>>>>}

\* Images of the calls: one with b # 0 and one with b = 0.
ParFamilies == {"affine", "zeroTop"}

\* IterativeSolverBase: m_tolerance, the default.
DefaultTolerance == [eps |-> TRUE, sq |-> RZero]

\* IterativeSolverBase::maxIterations(): twice the number of columns.
maxIterations == 2 * N

\* Vectors of the iteration are sequences; b and x are indexed from 0.
RECURSIVE ToSeq(_, _)
ToSeq(f, n) == IF n = 0 THEN <<>> ELSE Append(ToSeq(f, n - 1), f[n - 1])

FromSeq(v) == [k \in 0..(Len(v) - 1) |-> v[k + 1]]

RECURSIVE Dot(_, _, _)
\* The dot product of the first k entries.
Dot(u, v, k) == IF k = 0 THEN RZero ELSE RAdd(RMul(u[k], v[k]), Dot(u, v, k - 1))

RECURSIVE MatRow(_, _, _, _)
MatRow(A, i, v, k) ==
  IF k = 0 THEN RZero
  ELSE RAdd(RMul(RInt(A[i - 1][k - 1]), v[k]), MatRow(A, i, v, k - 1))

RECURSIVE MatVec(_, _, _)
\* Rows i.. of A * v.
MatVec(A, v, i) ==
  IF i > Len(v) THEN <<>>
  ELSE <<MatRow(A, i, v, Len(v))>> \o MatVec(A, v, i + 1)

RECURSIVE Axpy(_, _, _, _)
\* Entries k.. of u + s * v.
Axpy(u, s, v, k) ==
  IF k > Len(u) THEN <<>>
  ELSE <<RAdd(u[k], RMul(s, v[k]))>> \o Axpy(u, s, v, k + 1)

RECURSIVE precondSolve(_, _, _)
\* DiagonalPreconditioner::solve, the default preconditioner: entries k..
precondSolve(A, r, k) ==
  IF k > Len(r) THEN <<>>
  ELSE <<RDiv(r[k], RInt(A[k - 1][k - 1]))>> \o precondSolve(A, r, k + 1)

\* residualNorm2 < threshold, threshold the larger of tol^2 * rhsNorm2 and the
\* smallest positive float.  The squared residuals that occur here are zero or
\* far above epsilon^2 * rhsNorm2.
BelowThreshold(res2, tol, rhs2) ==
  \/ res2 = RZero
  \/ ~tol.eps /\ RLt(res2, RMul(tol.sq, rhs2))

RECURSIVE cgLoop(_, _, _, _, _, _, _, _, _, _)
\* conjugate_gradient, the while loop.
cgLoop(A, n, xs, residual, p, absNew, i, maxIters, tol, rhs2) ==
  IF i >= maxIters
  THEN [x |-> FromSeq(xs), iters |-> i, err |-> RDiv(Dot(residual, residual, n), rhs2)]
  ELSE LET tmp == MatVec(A, p, 1)
           alpha == RDiv(absNew, Dot(p, tmp, n))
           x2 == Axpy(xs, alpha, p, 1)
           r2 == Axpy(residual, RNeg(alpha), tmp, 1)
           res2 == Dot(r2, r2, n)
           z == precondSolve(A, r2, 1)
           absNew2 == Dot(r2, z, n)
           beta == RDiv(absNew2, absNew)
       IN  IF BelowThreshold(res2, tol, rhs2)
           THEN [x |-> FromSeq(x2), iters |-> i, err |-> RDiv(res2, rhs2)]
           ELSE cgLoop(A, n, x2, r2, Axpy(z, beta, p, 1), absNew2, i + 1,
                       maxIters, tol, rhs2)

\* Eigen's conjugate_gradient from the zero guess: the solution, and the values
\* it leaves in `iters` and (squared) in `tol_error`.
conjugate_gradient(A, n, b, maxIters, tol) ==
  LET zero == [k \in 1..n |-> RZero]
      rhs == ToSeq(b, n)
      rhs2 == Dot(rhs, rhs, n)
      p == precondSolve(A, rhs, 1)
  IN  IF rhs2 = RZero THEN [x |-> FromSeq(zero), iters |-> 0, err |-> RZero]
      ELSE IF BelowThreshold(rhs2, tol, rhs2)
      THEN [x |-> FromSeq(zero), iters |-> 0, err |-> RInt(1)]
      ELSE cgLoop(A, n, zero, rhs, p, Dot(rhs, p, n), 0, maxIters, tol, rhs2)

\* What solve() returns for b when no other call runs.
SolveAlone(b) ==
  IF cg_ THEN conjugate_gradient(a_, N, b, maxIterations, DefaultTolerance).x
  ELSE LinSolve(EffectiveMatrix(a_, N, FALSE), b, N)

IdleCall ==
  [at |-> "idle", inst |-> 1, buf |-> <<>>, comp |-> "int", b |-> <<>>,
   tol |-> DefaultTolerance, maxIters |-> 0, out |-> <<>>, ret |-> <<>>]

\* The instance both calls may use, and a second one built from the same
\* arguments.
ConstructShared ==
  /\ pc = "new"
  /\ \E coords \in ParCatalogues, cg \in BOOLEAN :
       /\ FillCtor(coords, MaxW, MaxH, cg)
       /\ argCoords' = coords
  /\ kind' = "coords"
  /\ running' = [t \in CallIds |-> IdleCall]
  /\ m_iterations' = [i \in CallIds |-> 0]
  /\ m_error' = [i \in CallIds |-> DefaultTolerance]
  /\ UNCHANGED <<argMask, argStride, bilinVars, compType, imStride, imageIn, image, bvec, x,
                 dfVars>>

UnchangedInstance ==
  UNCHANGED <<pc, kind, argCoords, argMask, argStride, wdth_, hght_, cg_,
              coords_, coordsMap_, lrtb_, a_, A_, bilinVars, compType, imStride,
              imageIn, image, bvec, x, dfVars>>

\* operator() entered; solve() up to the assembled b.  The first call is on
\* instance 1, every other call on instance 1 or on its own.
CallBegin(t) ==
  /\ pc = "constructed"
  /\ running # <<>>
  /\ running[t].at = "idle"
  /\ \E fam \in ParFamilies, comp \in {"int", "float"}, i \in {1, t} :
       LET buf == ImageBuffer(fam, 77, Catalogue, wdth_, hght_, 1)
       IN  running' = [running EXCEPT ![t] =
                       [@ EXCEPT !.at = IF cg_ THEN "setIterations" ELSE "cholesky",
                                 !.inst = i, !.buf = buf, !.comp = comp,
                                 !.b = solveB(lrtb_, buf, 1)]]
  /\ UNCHANGED <<m_iterations, m_error>>
  /\ UnchangedInstance

\* A_->solve(b): SimplicialCholesky::solve works on temporaries only.
CholeskySolve(t) ==
  /\ running # <<>>
  /\ running[t].at = "cholesky"
  /\ running' = [running EXCEPT ![t] =
                 [@ EXCEPT !.at = "return",
                           !.out = [x |-> LinSolve(EffectiveMatrix(a_, N, FALSE),
                                                    running[t].b, N)]]]
  /\ UNCHANGED <<m_iterations, m_error>>
  /\ UnchangedInstance

\* ConjugateGradient::_solve_vector_with_guess_impl: m_iterations = maxIterations().
CgSetIterations(t) ==
  /\ running # <<>>
  /\ running[t].at = "setIterations"
  /\ m_iterations' = [m_iterations EXCEPT ![running[t].inst] = maxIterations]
  /\ running' = [running EXCEPT ![t].at = "setError"]
  /\ UNCHANGED m_error
  /\ UnchangedInstance

\* m_error = m_tolerance.
CgSetError(t) ==
  /\ running # <<>>
  /\ running[t].at = "setError"
  /\ m_error' = [m_error EXCEPT ![running[t].inst] = DefaultTolerance]
  /\ running' = [running EXCEPT ![t].at = "readTol"]
  /\ UNCHANGED m_iterations
  /\ UnchangedInstance

\* conjugate_gradient(..., m_iterations, m_error): tol = tol_error.
CgReadTol(t) ==
  /\ running # <<>>
  /\ running[t].at = "readTol"
  /\ running' = [running EXCEPT ![t] = [@ EXCEPT !.at = "readIters",
                                             !.tol = m_error[running[t].inst]]]
  /\ UNCHANGED <<m_iterations, m_error>>
  /\ UnchangedInstance

\* maxIters = iters, and the iteration, which works on locals.
CgReadIters(t) ==
  /\ running # <<>>
  /\ running[t].at = "readIters"
  /\ running' = [running EXCEPT ![t] =
                 [@ EXCEPT !.at = "writeError",
                           !.maxIters = m_iterations[running[t].inst],
                           !.out = conjugate_gradient(a_, N, running[t].b,
                                     m_iterations[running[t].inst],
                                     running[t].tol)]]
  /\ UNCHANGED <<m_iterations, m_error>>
  /\ UnchangedInstance

\* tol_error = sqrt(residualNorm2 / rhsNorm2).
CgWriteError(t) ==
  /\ running # <<>>
  /\ running[t].at = "writeError"
  /\ m_error' = [m_error EXCEPT ![running[t].inst] = [eps |-> FALSE, sq |-> running[t].out.err]]
  /\ running' = [running EXCEPT ![t].at = "writeIters"]
  /\ UNCHANGED m_iterations
  /\ UnchangedInstance

\* iters = i.
CgWriteIters(t) ==
  /\ running # <<>>
  /\ running[t].at = "writeIters"
  /\ m_iterations' = [m_iterations EXCEPT ![running[t].inst] = running[t].out.iters]
  /\ running' = [running EXCEPT ![t].at = "return"]
  /\ UNCHANGED m_error
  /\ UnchangedInstance

\* operator(): copySolutionBackIntoImage on the call's own buffer, return x.
CallReturn(t) ==
  /\ running # <<>>
  /\ running[t].at = "return"
  /\ running' = [running EXCEPT ![t] =
                 [@ EXCEPT !.at = "done",
                           !.ret = running[t].out.x,
                           !.buf = copySolutionBackIntoImage(@, 1, coords_, wdth_,
                                     running[t].out.x, running[t].comp)]]
  /\ UNCHANGED <<m_iterations, m_error>>
  /\ UnchangedInstance

NextPar ==
  \/ ConstructShared
  \/ \E t \in CallIds :
       \/ CallBegin(t)
       \/ CholeskySolve(t)
       \/ CgSetIterations(t)
       \/ CgSetError(t)
       \/ CgReadTol(t)
       \/ CgReadIters(t)
       \/ CgWriteError(t)
       \/ CgWriteIters(t)
       \/ CallReturn(t)

SpecPar == Init /\ [][NextPar]_vars

-----------------------------------------------------------------------------
(* Namespace df: interpolate, BinPrep and bin2x2.  An array is a record
   [rows, cols, at] in which `at` gives the element at <<r, c>>. *)

MaxCen == 2
MaxBinSide == 9

\* Corner values: the halves used by the tests and the ones between them.
CornerValues == {Rat(k, 2) : k \in {-9, -5, -1, 3, 7, 11}}

\* VectorXf::LinSpaced(n, 0.5f, n - 0.5f)(k): the centre of pixel k.
LinSpacedCentre(n, k) == IF n = 1 THEN Rat(2 * n - 1, 2) ELSE Rat(2 * k + 1, 2)

\* df::interpolate: the interpolant i at (r, c).
interpolant(c4, nrow, ncol, r, c) ==
  LET tl == c4[<<0, 0>>]
      bl == c4[<<1, 0>>]
      tr == c4[<<0, 1>>]
      br == c4[<<1, 1>>]
      inrow == Rat(1, nrow)
      incol == Rat(1, ncol)
      ml == RMul(RSub(bl, tl), inrow)
      mr == RMul(RSub(br, tr), inrow)
      lft == RAdd(tl, RMul(ml, LinSpacedCentre(nrow, r)))
      rgt == RAdd(tr, RMul(mr, LinSpacedCentre(nrow, r)))
      m == RMul(RSub(rgt, lft), incol)
  IN  RAdd(lft, RMul(m, LinSpacedCentre(ncol, c)))

\* df::interpolate(crn, cen): cen = i for a float array, else
\* cen = i.cast<Scalar>().
interpolate(c4, nrow, ncol, scalar) ==
  [rows |-> nrow, cols |-> ncol, scalar |-> scalar,
   at |-> [e \in (0..(nrow - 1)) \X (0..(ncol - 1)) |->
             IF scalar = "float" THEN interpolant(c4, nrow, ncol, e[1], e[2])
             ELSE RInt(Trunc(interpolant(c4, nrow, ncol, e[1], e[2])))]]

Interpolate ==
  /\ pc = "new"
  /\ kind = "none"
  /\ \E tl \in CornerValues, tr \in CornerValues, bl \in CornerValues, br \in CornerValues :
     \E nrow \in 1..MaxCen, ncol \in 1..MaxCen, scalar \in {"float", "int"} :
       LET c4 == [e \in {0, 1} \X {0, 1} |->
                    IF e = <<0, 0>> THEN tl ELSE IF e = <<0, 1>> THEN tr
                    ELSE IF e = <<1, 0>> THEN bl ELSE br]
       IN  /\ crn' = c4
           /\ cen' = interpolate(c4, nrow, ncol, scalar)
  /\ pc' = "interpolated"
  /\ kind' = "df"
  /\ UNCHANGED <<argCoords, argMask, argStride, wdth_, hght_, cg_, coords_, coordsMap_,
                 lrtb_, a_, A_, bilinVars, compType, imStride, imageIn, image, bvec, x,
                 parVars, binArg, binPrep, binOut>>

\* df::minMult
minMult(n, f) ==
  LET j == n \div f
  IN  IF j * f < n THEN (j + 1) * f ELSE j * f

RECURSIVE maxBinFactorFrom(_, _, _)
maxBinFactorFrom(bf, rows, cols) ==
  LET D == 8
  IN  IF bf <= rows \div D /\ bf <= cols \div D THEN maxBinFactorFrom(bf * 2, rows, cols)
      ELSE bf

\* df::maxBinFactor
maxBinFactor(a) == maxBinFactorFrom(1, a.rows, a.cols)

\* BinPrep filling the new cells with zeros whatever e says.
BinPrepAlwaysZeros(a, e) ==
  LET bf == maxBinFactor(a)
      bRows == minMult(a.rows, bf)
      bCols == minMult(a.cols, bf)
  IN  [maxBinFactor |-> bf, bRows |-> bRows, bCols |-> bCols,
       extArray |->
         [rows |-> bRows, cols |-> bCols,
          at |-> [p \in (0..(bRows - 1)) \X (0..(bCols - 1)) |->
                    IF p[1] <= a.rows - 1 /\ p[2] <= a.cols - 1 THEN a.at[p] ELSE 0]]]

\* df::BinPrep::BinPrep(a, e)
BinPrep(a, e) ==
  LET bf == maxBinFactor(a)
      bRows == minMult(a.rows, bf)
      bCols == minMult(a.cols, bf)
      mra == a.rows - 1
      mca == a.cols - 1
  IN  [maxBinFactor |-> bf, bRows |-> bRows, bCols |-> bCols,
       extArray |->
         [rows |-> bRows, cols |-> bCols,
          at |-> [p \in (0..(bRows - 1)) \X (0..(bCols - 1)) |->
                    IF p[1] <= mra /\ p[2] <= mca THEN a.at[p]
                    ELSE IF e = "ZEROS" THEN 0
                    ELSE IF p[2] <= mca THEN a.at[<<mra, p[2]>>]
                    ELSE IF p[1] <= mra THEN a.at[<<p[1], mca>>]
                    ELSE a.at[<<mra, mca>>]]]]

\* df::impl::BinFunctor::operator()
BinFunctor(a, dup, r, c) ==
  IF r >= a.rows /\ ~dup THEN 0
  ELSE IF c >= a.cols /\ ~dup THEN 0
  ELSE a.at[<<IF r >= a.rows THEN a.rows - 1 ELSE r,
              IF c >= a.cols THEN a.cols - 1 ELSE c>>]

\* df::bin2x2(a, dup), for an array of at least two rows and two columns.
df_bin2x2(a, dup) ==
  LET anrEven == a.rows = (a.rows \div 2) * 2
      ancEven == a.cols = (a.cols \div 2) * 2
      bnr == IF anrEven THEN a.rows \div 2 ELSE (a.rows + 1) \div 2
      bnc == IF ancEven THEN a.cols \div 2 ELSE (a.cols + 1) \div 2
  IN  [rows |-> bnr, cols |-> bnc,
       at |-> [p \in (0..(bnr - 1)) \X (0..(bnc - 1)) |->
                 BinFunctor(a, dup, 2 * p[1], 2 * p[2])
                 + BinFunctor(a, dup, 2 * p[1] + 1, 2 * p[2])
                 + BinFunctor(a, dup, 2 * p[1], 2 * p[2] + 1)
                 + BinFunctor(a, dup, 2 * p[1] + 1, 2 * p[2] + 1)]]

\* Arrays handed to BinPrep: the one of the tests, filled column by column with
\* 0, 1, 2, ..., and one that is 1 + r + 10 c, cut to rows x cols.
BinArrays(rows, cols) ==
  {[rows |-> rows, cols |-> cols,
    at |-> [p \in (0..(rows - 1)) \X (0..(cols - 1)) |-> p[1] + rows * p[2]]],
   [rows |-> rows, cols |-> cols,
    at |-> [p \in (0..(rows - 1)) \X (0..(cols - 1)) |-> 1 + p[1] + 10 * p[2]]]}

BinPrepCtor ==
  /\ pc = "new"
  /\ kind = "none"
  /\ \E rows \in 2..MaxBinSide, cols \in 2..MaxBinSide, e \in {"ZEROS", "COPIES"} :
     \E a \in BinArrays(rows, cols) :
       /\ binArg' = [a |-> a, e |-> e]
       /\ binPrep' = BinPrep(a, e)
  /\ pc' = "prepared"
  /\ kind' = "df"
  /\ UNCHANGED <<argCoords, argMask, argStride, wdth_, hght_, cg_, coords_, coordsMap_,
                 lrtb_, a_, A_, bilinVars, compType, imStride, imageIn, image, bvec, x,
                 parVars, crn, cen, binOut>>

\* bin2x2(bp.extArray), dup left at its default.
Bin2x2Call ==
  /\ pc = "prepared"
  /\ kind = "df"
  /\ binOut' = df_bin2x2(binPrep.extArray, FALSE)
  /\ pc' = "binned"
  /\ UNCHANGED <<kind, argCoords, argMask, argStride, wdth_, hght_, cg_, coords_, coordsMap_,
                 lrtb_, a_, A_, bilinVars, compType, imStride, imageIn, image, bvec, x,
                 parVars, crn, cen, binArg, binPrep>>

NextDf == Interpolate \/ BinPrepCtor \/ Bin2x2Call

SpecDf == Init /\ [][NextDf]_vars

-----------------------------------------------------------------------------
\* Construction over the wide input sets.
NextCtor ==
  \/ ConstructFromCoords(Dims, CallerCoords)
  \/ ConstructFromMask(Dims, HoleSets)

SpecCtor == Init /\ [][NextCtor]_vars

\* The whole life of a Fill instance.
Next ==
  \/ ConstructFromCoords(DimsWithInterior, FewCoords)
  \/ ConstructFromMask(DimsWithInterior, InteriorHoleSets)
  \/ Apply
  \/ Reapply

Spec == Init /\ [][Next]_vars

----------------------------------------------------------------------------
(* Properties of Fill's construction (SpecCtor) and of operator() (Spec). *)

Legal(e, w, h) == 1 <= e[1] /\ e[1] <= h - 2 /\ 1 <= e[2] /\ e[2] <= w - 2

RECURSIVE KeepLegal(_, _, _)
KeepLegal(s, w, h) ==
  IF s = <<>> THEN <<>>
  ELSE (IF Legal(Head(s), w, h) THEN <<Head(s)>> ELSE <<>>) \o KeepLegal(Tail(s), w, h)

\* C1: a Fill built from a coordinate list is constructed without raising, and
\* its catalogue is the list's entries with 1 <= row <= H-2 and 1 <= col <= W-2,
\* in the caller's order; every other entry is dropped.
C1_CatalogueKeepsLegalEntries ==
  kind = "coords" => /\ pc = "constructed"
                     /\ coords_ = KeepLegal(argCoords, wdth_, hght_)

\* A list whose middle entry has a negative column and whose kept entries are
\* not in row-major order.
C1_Witness ==
  /\ kind = "coords"
  /\ Len(argCoords) = 3
  /\ argCoords[2] = <<1, -1>>
  /\ coords_ = <<<<2, 1>>, <<1, 1>>>>

MaskAt(r, c) == argMask[(r * wdth_ + c) * argStride]

\* C2: a Fill built from a mask has as catalogue the pixels of rows 1..H-2 and
\* columns 1..W-2 whose mask value at offset (r*W + c)*stride is non-zero, in
\* row-major order; the catalogue is empty when H <= 2 or W <= 2.
C2_CatalogueFromMask ==
  kind = "mask" =>
    LET S == {e \in Interior(wdth_, hght_) : MaskAt(e[1], e[2]) # 0}
    IN  /\ pc = "constructed"
        /\ {coords_[i] : i \in 1..N} = S
        /\ N = Cardinality(S)
        /\ \A i, j \in 1..N :
             i < j => LinRowMaj(coords_[i][1], coords_[i][2], wdth_)
                        < LinRowMaj(coords_[j][1], coords_[j][2], wdth_)
        /\ (hght_ <= 2 \/ wdth_ <= 2) => coords_ = <<>>

\* An interleaved mask that is non-zero on an edge pixel and on two legal ones.
C2_Witness ==
  /\ kind = "mask"
  /\ argStride = MaxStride
  /\ wdth_ # hght_
  /\ N = 2
  /\ MaskAt(0, 1) # 0
  /\ MaskAt(0, 0) = 0

\* coordsMap_ read as the H x W array it is.
MapAt(e) == coordsMap_[LinColMaj(e[1], e[2], hght_)]

\* C3: after construction coordsMap_ is H x W, coordsMap_[coords_[i]] = i for
\* every catalogue row i, no other entry equals i, and the pixels that are not
\* in the catalogue hold -1.
C3_CoordsMapBijective ==
  pc = "constructed" =>
    /\ DOMAIN coordsMap_ = 0..(hght_ * wdth_ - 1)
    /\ \A i \in 1..N : MapAt(coords_[i]) = i - 1
    /\ \A e \in AllPix(wdth_, hght_) :
         IF e \in {coords_[i] : i \in 1..N}
         THEN MapAt(e) \in 0..(N - 1) /\ coords_[MapAt(e) + 1] = e
         ELSE MapAt(e) = -1

C4_Entry(v, e) ==
  IF e \in {coords_[i] : i \in 1..N}
  THEN v \in 0..(N - 1) /\ coords_[v + 1] = e
  ELSE v = -(e[2] + e[1] * wdth_) - 1

\* C4: row i of lrtb_ holds, for the left, right, top and bottom neighbour of
\* coords_[i] in this order, the catalogue index of the neighbour when it is in
\* the catalogue and -(c' + r'*W) - 1 otherwise.
C4_LrtbEncoding ==
  pc = "constructed" =>
    /\ Len(lrtb_) = N
    /\ \A i \in 1..N :
         LET r == coords_[i][1]
             c == coords_[i][2]
         IN  /\ C4_Entry(lrtb_[i][1], <<r, c - 1>>)
             /\ C4_Entry(lrtb_[i][2], <<r, c + 1>>)
             /\ C4_Entry(lrtb_[i][3], <<r - 1, c>>)
             /\ C4_Entry(lrtb_[i][4], <<r + 1, c>>)

\* A row with an unknown neighbour and a boundary neighbour, in an image that
\* is not square.
C4_Witness ==
  /\ pc = "constructed"
  /\ wdth_ # hght_
  /\ \E i \in 1..N : lrtb_[i][2] >= 0 /\ lrtb_[i][1] < 0 /\ lrtb_[i][4] < 0

\* C5: row i of the matrix holds +4 on the diagonal, -1 at column j for each
\* neighbour encoded as unknown j, and nothing else; at most five non-zeros.
C5_MatrixRows ==
  pc = "constructed" =>
    \A i \in 0..(N - 1) :
      /\ DOMAIN a_[i] = 0..(N - 1)
      /\ a_[i][i] = 4
      /\ \A j \in 0..(N - 1) :
           j # i => a_[i][j] = IF \E k \in 1..4 : lrtb_[i + 1][k] = j THEN -1 ELSE 0
      /\ Cardinality({j \in 0..(N - 1) : a_[i][j] # 0}) <= 5

\* Three unknowns, two of them coupled to unknown 0.
C5_Witness ==
  /\ pc = "constructed"
  /\ N = 3
  /\ a_[1][0] = -1
  /\ a_[2][0] = -1
  /\ a_[1][2] = 0

PixelAt(buf, stride, e) == buf[(e[1] * wdth_ + e[2]) * stride]

Neighbours(e) == {<<e[1], e[2] - 1>>, <<e[1], e[2] + 1>>, <<e[1] - 1, e[2]>>, <<e[1] + 1, e[2]>>}

RECURSIVE SumOver(_, _, _)
SumOver(S, buf, stride) ==
  IF S = {} THEN RZero
  ELSE LET e == CHOOSE q \in S : TRUE
       IN  RAdd(PixelAt(buf, stride, e), SumOver(S \ {e}, buf, stride))

C6_Decoded(v) == <<(-v - 1) \div wdth_, (-v - 1) % wdth_>>

\* C6: b[i] is the sum of the image values at the decoded offsets of exactly
\* the negative-encoded neighbours of coords_[i], which are its neighbours
\* outside the catalogue: no value of a catalogue pixel enters b.
C6_RightHandSide ==
  pc = "applied" =>
    \A i \in 1..N :
      /\ bvec[i - 1] = SumOver({C6_Decoded(lrtb_[i][k]) : k \in {k \in 1..4 : lrtb_[i][k] < 0}},
                               imageIn, imStride)
      /\ bvec[i - 1] = SumOver(Neighbours(coords_[i]) \ {coords_[j] : j \in 1..N},
                               imageIn, imStride)

\* An interleaved image and a row with two unknown neighbours.
C6_Witness ==
  /\ pc = "applied"
  /\ imStride = MaxStride
  /\ \E i \in 1..N : lrtb_[i][2] >= 0 /\ lrtb_[i][4] >= 0 /\ bvec[i - 1] = RInt(5)

\* An affine function of the pixel coordinates.
AffineF(e) == e[1] + 2 * e[2] + 1

\* Every pixel outside the catalogue held a sample of AffineF when operator()
\* was entered.
AffineOutside ==
  \A e \in AllPix(wdth_, hght_) \ Catalogue :
    PixelAt(imageIn, imStride, e) = RInt(AffineF(e))

RECURSIVE RowTimesF(_, _)
\* Sum over columns 0..j of a_[i][j] * AffineF(coords_[j]).
RowTimesF(i, j) ==
  IF j < 0 THEN 0 ELSE a_[i][j] * AffineF(coords_[j + 1]) + RowTimesF(i, j - 1)

\* The first half of C8: the samples of an affine function satisfy every row
\* of the assembled system.
C8_AffineSatisfiesRows ==
  (pc = "applied" /\ AffineOutside) =>
    \A i \in 0..(N - 1) : RInt(RowTimesF(i, N - 1)) = bvec[i]

\* C8: when the pixels outside the catalogue are samples of an affine function
\* f, x[i] = f(coords_[i]) satisfies every row of a_ x = b and the solver
\* returns f at every catalogue row.
C8_AffineReproduced ==
  (pc = "applied" /\ AffineOutside) =>
    \A i \in 0..(N - 1) : /\ RInt(RowTimesF(i, N - 1)) = bvec[i]
                          /\ x[i] = RInt(AffineF(coords_[i + 1]))

----------------------------------------------------------------------------
(* Properties of the assembled matrix and of FillBiLin (SpecBiLin). *)

MatrixSize == Cardinality(DOMAIN a_)

RECURSIVE OffDiagonalSum(_, _)
\* Sum over the columns j' <= j, j' # i, of |a_[i][j']|.
OffDiagonalSum(i, j) ==
  IF j < 0 THEN 0
  ELSE (IF j = i THEN 0 ELSE Abs(a_[i][j])) + OffDiagonalSum(i, j - 1)

\* C7: the matrix of every solver instance is symmetric and diagonally
\* dominant, strictly so in a row of the exact solver that has a boundary
\* neighbour.
C7_SymmetricDominant ==
  (pc \in {"constructed", "applied"} /\ (kind = "bilin" => A_)) =>
    /\ IsSymmetric(a_, MatrixSize)
    /\ \A i \in 0..(MatrixSize - 1) :
         /\ Abs(a_[i][i]) >= OffDiagonalSum(i, MatrixSize - 1)
         /\ (kind # "bilin" /\ \E k \in 1..4 : lrtb_[i + 1][k] < 0)
              => Abs(a_[i][i]) > OffDiagonalSum(i, MatrixSize - 1)

\* The image FillBiLin's caller passed holds AffineF on every pixel that the
\* mask buffer does not mark, both buffers read row-major.
AffineOutsideCallerHole ==
  \A e \in Cells(hght_, wdth_) \ CallerHole :
    PixelAt(imageIn, imStride, e) = RInt(AffineF(e))

\* C9: after FillBiLin's operator() on an image whose pixels outside the hole
\* are samples of an affine function f, every hole pixel holds f, whatever it
\* held before.  Stated for holes that keep away from the edge of the image.
C9_BiLinAffineReproduced ==
  (/\ pc = "applied"
   /\ kind = "bilin"
   /\ compType # "const"
   /\ CallerHole \subseteq Interior(wdth_, hght_)
   /\ AffineOutsideCallerHole) =>
    \A e \in CallerHole : PixelAt(image, imStride, e) = RInt(AffineF(e))

----------------------------------------------------------------------------
(* Properties of the write-back (SpecRound). *)

\* The integer part of q: the integer t between 0 and q that is nearest to q.
TowardZero(q) ==
  CHOOSE t \in (-(RoundMax + 1))..(RoundMax + 1) :
    IF RLt(q, RZero) THEN RLt(RInt(t - 1), q) /\ ~RLt(RInt(t), q)
    ELSE ~RLt(q, RInt(t)) /\ RLt(q, RInt(t + 1))

\* C10: a signed integer pixel receives trunc(x - 0.5) when x < 0 and
\* trunc(x + 0.5) otherwise (-0.3 -> 0, -0.7 -> -1, 0.3 -> 0, 0.7 -> 1), an
\* unsigned pixel trunc(x + 0.5), and a floating pixel x itself.
C10_WriteBackRounding ==
  (pc = "applied" /\ kind = "value") =>
    LET q == x[0]
        stored == image[0]
    IN  /\ compType = "int" =>
             stored = RInt(TowardZero(IF RLt(q, RZero) THEN RSub(q, RHalf)
                                      ELSE RAdd(q, RHalf)))
        /\ compType = "unsigned" => stored = RInt(TowardZero(RAdd(q, RHalf)))
        /\ compType = "float" => stored = q
        /\ (compType = "int" /\ q = <<-3, 10>>) => stored = RInt(0)
        /\ (compType = "int" /\ q = <<-7, 10>>) => stored = RInt(-1)
        /\ (compType = "int" /\ q = <<3, 10>>) => stored = RInt(0)
        /\ (compType = "int" /\ q = <<7, 10>>) => stored = RInt(1)

\* The value -0.7 stored into a signed pixel.
C10_Witness ==
  /\ pc = "applied"
  /\ kind = "value"
  /\ compType = "int"
  /\ x[0] = <<-7, 10>>
  /\ image[0] = RInt(-1)

----------------------------------------------------------------------------
(* Properties of Fill::operator() (Spec). *)

\* The catalogue rows that name the pixel stored at buffer offset k.
NamedAt(k) ==
  {i \in 1..N : (coords_[i][1] * wdth_ + coords_[i][2]) * imStride = k}

C12_FillIdempotent ==
  [][(pc = "applied" /\ pc' = "applied" /\ kind \in {"coords", "mask"})
       => (x' = x /\ image' = image)]_vars

\* C12: for either solver, a second operator() on the image the first one left
\* returns the same solution vector and leaves the image exactly as it is.
C12_ApplyIdempotent ==
  [][(pc = "applied" /\ pc' \in {"applied", "reapplied"})
       => (x' = x /\ image' = image)]_vars

\* C13: when some coordinate given to the coordinate-list constructor is on the
\* edge of the image or outside it, coordsMap() is an empty array and the
\* vector returned by operator() is empty.
C13_OutOfBoundsGivesEmpty ==
  (/\ kind = "coords"
   /\ \E i \in 1..Len(argCoords) : ~Legal(argCoords[i], wdth_, hght_)) =>
    /\ pc \in {"constructed", "applied"} => DOMAIN coordsMap_ = {}
    /\ pc = "applied" => DOMAIN x = {}

----------------------------------------------------------------------------
(* Properties of FillBiLin (SpecBiLin). *)

\* C14: for W = H = 12 and a mask that is non-zero exactly on rows 3..8 of
\* columns 3..8, the constructor registers exactly one square, (4, 4, 4).
C14_OneSquareInSolidBlock ==
  (/\ kind = "bilin"
   /\ pc \in {"constructed", "applied"}
   /\ wdth_ = 12
   /\ hght_ = 12
   /\ CallerHole = (3..8) \X (3..8)) =>
    corners_ = <<<<4, 4, 4>>>>

\* The bilinear interpolation, at pixel e, of the values the image holds at
\* the four corners of the square sq = <<top, left, side>>.
Bilinear(buf, stride, sq, e) ==
  LET top == sq[1]
      lft == sq[2]
      bot == sq[1] + sq[3] - 1
      rgt == sq[2] + sq[3] - 1
      s == sq[3] - 1
      term(r, c, wgt) == RMul(Rat(wgt, s * s), PixelAt(buf, stride, <<r, c>>))
  IN  RAdd(RAdd(term(top, lft, (bot - e[1]) * (rgt - e[2])),
                term(top, rgt, (bot - e[1]) * (e[2] - lft))),
           RAdd(term(bot, lft, (e[1] - top) * (rgt - e[2])),
                term(bot, rgt, (e[1] - top) * (e[2] - lft))))

StrictInterior(sq) ==
  ((sq[1] + 1)..(sq[1] + sq[3] - 2)) \X ((sq[2] + 1)..(sq[2] + sq[3] - 2))

\* C15: after operator() on a writable image, every pixel in the strict
\* interior of a registered square holds the rounded bilinear interpolation of
\* the values at the square's four corners.
C15_SquareInteriorInterpolated ==
  (pc = "applied" /\ kind = "bilin" /\ compType # "const") =>
    \A k \in 1..Len(corners_) :
      \A e \in StrictInterior(corners_[k]) :
        PixelAt(image, imStride, e)
          = Stored(Bilinear(image, imStride, corners_[k], e), compType)

\* C16: when the zero-padded mask is smaller than 2 x 2, the constructor does
\* not throw and registers no square, and every operator() afterwards returns
\* an empty solution and leaves the image as it is.
C16_InertInstance ==
  (kind = "bilin" /\ (pow2(hght_) < 2 \/ pow2(wdth_) < 2)) =>
    /\ pc \notin {"thrown", "crashed"}
    /\ corners_ = <<>>
    /\ pc \in {"applied", "reapplied"} => (DOMAIN x = {} /\ image = imageIn)

\* C17: for every mask of an image with H >= 2 and W >= 2 the constructor
\* completes without throwing, and operator() returns one value per entry of
\* the reduced catalogue.
C17_ValidMaskConstructsAndSolves ==
  (kind = "bilin" /\ hght_ >= 2 /\ wdth_ >= 2) =>
    /\ pc \notin {"thrown", "crashed"}
    /\ pc \in {"applied", "reapplied"} => DOMAIN x = 0..(N - 1)

-----------------------------------------------------------------------------
SquarePixels(sq) == (sq[1]..(sq[1] + sq[3] - 1)) \X (sq[2]..(sq[2] + sq[3] - 1))

\* C19: after construction, at every pixel whose centre weight is non-zero the
\* left, right, top and bottom weights add up to minus the centre weight.
C19_WeightsSumToZero ==
  (kind = "bilin" /\ pc \in {"constructed", "applied", "reapplied"} /\ A_) =>
    \A e \in DOMAIN weights_ :
      weights_[e][5] # 0 =>
        weights_[e][1] + weights_[e][2] + weights_[e][3] + weights_[e][4] = -weights_[e][5]

\* An instance with a square corner, a square edge, an image corner, an image
\* edge and an ordinary interior unknown.
C19_Witness ==
  /\ kind = "bilin"
  /\ pc = "constructed"
  /\ A_
  /\ Len(corners_) = 1
  /\ weights_[<<corners_[1][1], corners_[1][2]>>] = <<1, 1, 1, 1, -4>>
  /\ weights_[<<corners_[1][1] + 1, corners_[1][2]>>] = <<0, 0, 1, 1, -2>>
  /\ weights_[<<corners_[1][1], corners_[1][2] + 1>>] = <<1, 1, 0, 0, -2>>
  /\ weights_[<<0, wdth_ - 1>>] = <<1, 0, 0, 1, -2>>
  /\ weights_[<<hght_ - 1, 0>>] = <<0, 1, 1, 0, -2>>
  /\ \E e \in DOMAIN weights_ : weights_[e][5] = -3
  /\ \E e \in DOMAIN weights_ :
       /\ weights_[e] = <<1, 1, 1, 1, -4>>
       /\ e \notin SquarePixels(corners_[1])

\* The mask as extendMask read it: pixel (r, c) taken from ImageMapOffset.
HoleAsRead ==
  {e \in Cells(hght_, wdth_) : argMask[ImageMapOffset(e[1], e[2], argStride)] # 0}

\* The three classes of coordsMap_, for a given set of hole pixels.
CoordsMapClasses(hole) ==
  \A e \in Cells(hght_, wdth_) :
    LET m == coordsMap_[e[1] + e[2] * hght_]
    IN  /\ m \in {-2, -1} \cup (0..(N - 1))
        /\ m >= 0 <=> weights_[e][5] # 0
        /\ m >= 0 => coords_[m + 1] = e
        /\ m = -2 <=> \E k \in 1..Len(corners_) : e \in StrictInterior(corners_[k])
        /\ m = -2 => weights_[e] = <<0, 0, 0, 0, 0>>
        /\ m = -1 <=> e \notin hole

\* The part of C20 that the constructor keeps: the classes of coordsMap_ with
\* the hole taken as the constructor read it from the buffer.
C20_ClassesOfMaskAsRead ==
  (kind = "bilin" /\ pc \in {"constructed", "applied", "reapplied"} /\ A_) =>
    CoordsMapClasses(HoleAsRead)

\* C20: after construction every pixel is in exactly one class: coordsMap = i >= 0
\* with coords[i] the pixel, exactly when its centre weight is non-zero;
\* coordsMap = -2 exactly when it is strictly inside a registered square (all
\* its weights zero); coordsMap = -1 exactly when it is not a hole pixel of the
\* row-major mask the caller passed.
C20_CoordsMapClasses ==
  (kind = "bilin" /\ pc \in {"constructed", "applied", "reapplied"} /\ A_) =>
    CoordsMapClasses(CallerHole)

\* The neighbour of pixel e in direction d: 1 left, 2 right, 3 top, 4 bottom,
\* the order of the weights.
NeighbourIn(e, d) ==
  IF d = 1 THEN <<e[1], e[2] - 1>>
  ELSE IF d = 2 THEN <<e[1], e[2] + 1>>
  ELSE IF d = 3 THEN <<e[1] - 1, e[2]>>
  ELSE <<e[1] + 1, e[2]>>

\* A pixel of the reduced catalogue: centre weight non-zero, coordsMap_ >= 0.
IsUnknown(e) ==
  /\ e \in Cells(hght_, wdth_)
  /\ weights_[e][5] # 0
  /\ coordsMap_[e[1] + e[2] * hght_] >= 0

\* The weighted image values, at the offsets FillBiLin addresses, of the
\* neighbours of e that have a non-zero weight and are not unknowns.
RECURSIVE BoundarySum(_, _, _, _)
BoundarySum(buf, stride, e, d) ==
  IF d = 0 THEN RZero
  ELSE LET n == NeighbourIn(e, d)
           term == IF weights_[e][d] # 0 /\ ~IsUnknown(n)
                   THEN RMul(RInt(weights_[e][d]),
                             buf[ImageMapOffset(n[1], n[2], stride)])
                   ELSE RZero
       IN  RAdd(term, BoundarySum(buf, stride, e, d - 1))

\* C21: in FillBiLin, for every row i and each neighbour n with a non-zero
\* weight, the matrix holds that weight in column coordsMap[n] whenever n is an
\* unknown, perimeters of squares included, and b[i] is made of the image values
\* of exactly the neighbours that are not unknowns.
C21_UnknownsCoupledOthersInB ==
  (kind = "bilin" /\ A_ /\ pc \in {"constructed", "applied", "reapplied"}) =>
    \A i \in 1..N :
      /\ \A d \in 1..4 :
           (weights_[coords_[i]][d] # 0 /\ IsUnknown(NeighbourIn(coords_[i], d))) =>
             LET n == NeighbourIn(coords_[i], d)
             IN  a_[i - 1][coordsMap_[n[1] + n[2] * hght_]] = weights_[coords_[i]][d]
      /\ pc \in {"applied", "reapplied"} =>
           bvec[i - 1] = BoundarySum(imageIn, imStride, coords_[i], 4)

\* C22: FillBiLin addresses the caller's buffers row-major with the given
\* stride: the constructor takes mask pixel (r, c) from offset (r*W + c)*stride,
\* and operator() leaves x[i] at offset (r*W + c)*stride for coords[i] = (r, c).
C22_RowMajorAddressing ==
  (kind = "bilin" /\ pc \in {"constructed", "applied", "reapplied"}) =>
    /\ \A e \in Cells(hght_, wdth_) :
         (\/ e \in extendedMask_.on
          \/ \E k \in 1..Len(corners_) : e \in SquarePixels(corners_[k]))
         <=> argMask[(e[1] * wdth_ + e[2]) * argStride] # 0
    /\ (pc = "applied" /\ compType # "const") =>
         \A i \in 1..N :
           image[(coords_[i][1] * wdth_ + coords_[i][2]) * imStride]
             = Stored(x[i - 1], compType)

\* The part of C23 about the members: no step of a call changes the
\* catalogue, the coordinate map, the neighbour table, the matrix or the
\* pointer to the factorisation.
C23_CallsLeaveMembers ==
  [][pc = "constructed" =>
       UNCHANGED <<wdth_, hght_, cg_, coords_, coordsMap_, lrtb_, a_, A_, bilinVars>>]_vars

\* The part of C23 about calls that share no solver: a call on an instance no
\* other call uses, or on an instance built with cg = false, returns what it
\* returns alone.
C23_UnsharedCallsAsAlone ==
  running # <<>> =>
    \A t \in CallIds :
      (/\ running[t].at = "done"
       /\ \/ ~cg_
          \/ \A u \in CallIds \ {t} : running[u].at = "idle" \/ running[u].inst # running[t].inst)
      => running[t].ret = SolveAlone(running[t].b)

\* C23: operator() does not modify the solver's state, so whatever the
\* interleaving of two calls on disjoint image memories, on one instance or on
\* two, each call returns the solution and leaves the pixels it does when it
\* runs alone.
C23_CallsDoNotInterfere ==
  running # <<>> =>
    \A t \in CallIds :
      running[t].at = "done" =>
        /\ running[t].ret = SolveAlone(running[t].b)
        /\ \A i \in 1..N :
             running[t].buf[coords_[i][1] * wdth_ + coords_[i][2]]
               = Stored(SolveAlone(running[t].b)[i - 1], running[t].comp)

\* The bilinear interpolation of the four corner values at the centre of
\* pixel (r, c) of an nrow x ncol array.
BilinearAtCentre(c4, nrow, ncol, r, c) ==
  LET u == Rat(2 * r + 1, 2 * nrow)
      v == Rat(2 * c + 1, 2 * ncol)
      one == RInt(1)
  IN  RAdd(RAdd(RMul(c4[<<0, 0>>], RMul(RSub(one, u), RSub(one, v))),
                RMul(c4[<<1, 0>>], RMul(u, RSub(one, v)))),
           RAdd(RMul(c4[<<0, 1>>], RMul(RSub(one, u), v)),
                RMul(c4[<<1, 1>>], RMul(u, v))))

\* Rounding to the nearest integer, halves away from zero.
NearestHalfAway(q) ==
  IF q[1] < 0 THEN -((2 * (-q[1]) + q[2]) \div (2 * q[2]))
  ELSE (2 * q[1] + q[2]) \div (2 * q[2])

\* The part of C24 about float arrays: every element is the bilinear
\* interpolation at the pixel's centre.
C24_FloatInterpolated ==
  (pc = "interpolated" /\ cen.scalar = "float") =>
    \A e \in DOMAIN cen.at :
      cen.at[e] = BilinearAtCentre(crn, cen.rows, cen.cols, e[1], e[2])

\* C24: df::interpolate(crn, cen) sets every element of cen to the bilinear
\* interpolation of the corner values at that pixel's centre; for an integer
\* cen, to that value rounded to the nearest integer, halves away from zero.
C24_InterpolatedAndRounded ==
  pc = "interpolated" =>
    \A e \in DOMAIN cen.at :
      cen.at[e] = IF cen.scalar = "float"
                  THEN BilinearAtCentre(crn, cen.rows, cen.cols, e[1], e[2])
                  ELSE RInt(NearestHalfAway(
                              BilinearAtCentre(crn, cen.rows, cen.cols, e[1], e[2])))

\* Cell (r, c) as the 2x2 blocks count it: the element of a inside a; beyond a,
\* zero for ZEROS and the nearest edge element of a for COPIES, but for the
\* cells outside `within`, which count as zero.
CellCounted(a, e, r, c, within) ==
  IF r < a.rows /\ c < a.cols THEN a.at[<<r, c>>]
  ELSE IF e = "ZEROS" \/ <<r, c>> \notin within THEN 0
  ELSE a.at[<<IF r < a.rows THEN r ELSE a.rows - 1, IF c < a.cols THEN c ELSE a.cols - 1>>]

BlockSum(a, e, i, j, within) ==
  CellCounted(a, e, 2 * i, 2 * j, within) + CellCounted(a, e, 2 * i + 1, 2 * j, within)
    + CellCounted(a, e, 2 * i, 2 * j + 1, within)
    + CellCounted(a, e, 2 * i + 1, 2 * j + 1, within)

\* extArray has the smallest multiples of maxBinFactor(a) not below a's
\* dimensions, and a in its top-left block.
ExtArrayAsStated ==
  LET a == binArg.a
      ext == binPrep.extArray
      f == maxBinFactor(a)
  IN  /\ ext.rows % f = 0 /\ ext.rows >= a.rows /\ ext.rows - f < a.rows
      /\ ext.cols % f = 0 /\ ext.cols >= a.cols /\ ext.cols - f < a.cols
      /\ \A p \in DOMAIN a.at : ext.at[p] = a.at[p]

\* Every pair of indices: no cell is left out of the count.
AllCells == Nat \X Nat

\* C25: bin2x2(BinPrep(a, e).extArray) holds at (i, j) the sum of the 2x2 block
\* of a at rows 2i..2i+1 and columns 2j..2j+1, the cells beyond a counting as
\* zero for ZEROS and as copies of the nearest edge element for COPIES; extArray
\* has the smallest multiples of maxBinFactor(a) not below a's dimensions and a
\* in its top-left block.
C25_BinnedBlocks ==
  pc = "binned" =>
    /\ ExtArrayAsStated
    /\ \A p \in DOMAIN binOut.at :
         binOut.at[p] = BlockSum(binArg.a, binArg.e, p[1], p[2], AllCells)

\* C25 as the code has it: the same, but under COPIES only the cells inside
\* extArray count as copies; a cell beyond extArray (there is one when
\* maxBinFactor(a) = 1 and a dimension of a is odd) counts as zero.
C25_BinnedBlocksWithinExtArray ==
  pc = "binned" =>
    /\ ExtArrayAsStated
    /\ binOut.rows = (binPrep.bRows + 1) \div 2
    /\ binOut.cols = (binPrep.bCols + 1) \div 2
    /\ \A p \in DOMAIN binOut.at :
         binOut.at[p] = BlockSum(binArg.a, binArg.e, p[1], p[2],
                                 DOMAIN binPrep.extArray.at)

\* A 9 x 9 array extended by copies to 10 x 10 and binned to 5 x 5.
C25_Witness ==
  /\ pc = "binned"
  /\ binArg.e = "COPIES"
  /\ binArg.a.rows = 9 /\ binArg.a.cols = 9
  /\ binPrep.bRows = 10
  /\ binOut.at[<<4, 4>>] = 4 * binArg.a.at[<<8, 8>>]

-----------------------------------------------------------------------------
(* Properties of the squares registered by binMask (SpecAnalyse). *)

\* C18: the registered squares are pairwise disjoint, whether they were
\* registered at the same binning level or at different levels.
C18_SquaresDisjoint ==
  \A i, j \in 1..Len(corners_) :
    i # j => SquarePixels(corners_[i]) \cap SquarePixels(corners_[j]) = {}

\* Squares of side 8 and of side 4 registered for the same mask, and two of
\* side 4 among them.
C18_Witness ==
  /\ pc = "analysed"
  /\ \E i, j, k \in 1..Len(corners_) :
       /\ corners_[i][3] = 8
       /\ corners_[j][3] = 4
       /\ corners_[k][3] = 4
       /\ j # k

\* The cells of side s of the extended mask, and those that are true in the
\* AND-binned mask of that level: every pixel of the cell is a hole pixel of
\* the mask as the constructor read it.
LevelCells(s) == Cells(pow2(hght_) \div s, pow2(wdth_) \div s)

AndBinned(s) ==
  {c \in LevelCells(s) :
     \A p \in ((c[1] * s)..(c[1] * s + s - 1)) \X ((c[2] * s)..(c[2] * s + s - 1)) :
       p \in HoleAsRead}

ValidAt(s) ==
  {c \in AndBinned(s) :
     {<<c[1] - 1, c[2]>>, <<c[1] + 1, c[2]>>, <<c[1], c[2] - 1>>, <<c[1], c[2] + 1>>}
       \subseteq AndBinned(s)}

\* The descent starts at cell size 4 and goes on to the doubled size while the
\* binned mask has at least 8 rows and 8 columns.
LevelSizes == {4, 8, 16, 32, 64}

LevelReached(s) ==
  \/ s = 4
  \/ /\ s \in LevelSizes
     /\ pow2(hght_) \div (s \div 2) >= 8
     /\ pow2(wdth_) \div (s \div 2) >= 8

RegisteredAt(s) ==
  {<<corners_[k][1] \div s, corners_[k][2] \div s>> :
     k \in {j \in 1..Len(corners_) : corners_[j][3] = s}}

\* C26: at every level of the descent the cells registered as squares are the
\* valid cells (true with their four neighbours in that level's AND-binned
\* mask) outside the 2x2 expansion of the cells valid at the next coarser
\* level; at the coarsest level every valid cell is registered.
C26_RegisteredPerLevel ==
  pc = "analysed" =>
    /\ \A k \in 1..Len(corners_) :
         /\ LevelReached(corners_[k][3])
         /\ corners_[k][1] % corners_[k][3] = 0
         /\ corners_[k][2] % corners_[k][3] = 0
    /\ \A s \in LevelSizes :
         LevelReached(s) =>
           RegisteredAt(s) =
             IF LevelReached(2 * s)
             THEN {c \in ValidAt(s) : <<c[1] \div 2, c[2] \div 2>> \notin ValidAt(2 * s)}
             ELSE ValidAt(s)

\* A mask with a square at the coarsest level, side 8, and a valid cell of side
\* 4 that is inside it and so not registered, next to one that is registered.
C26_Witness ==
  /\ pc = "analysed"
  /\ LevelReached(8)
  /\ RegisteredAt(8) # {}
  /\ RegisteredAt(4) # {}
  /\ ValidAt(4) \ RegisteredAt(4) # {}

-----------------------------------------------------------------------------
(* Properties of the weights and of the squares of FillBiLin (SpecBiLin). *)

SquareCorners(sq) ==
  {sq[1], sq[1] + sq[3] - 1} \X {sq[2], sq[2] + sq[3] - 1}

\* The pixels on the edges of a square without its corners.
SquareEdgePixels(sq) == (SquarePixels(sq) \ StrictInterior(sq)) \ SquareCorners(sq)

\* C27: for a non-corner pixel on an edge of a registered square with
\* edge-to-edge distance s the stored centre weight wC satisfies
\* s = (|wC| - 1) / 3, and the pixel's row of the matrix has a coefficient in
\* the column of a corner of the square on that edge.
C27_EdgeWeightEncodesSide ==
  (kind = "bilin" /\ A_ /\ pc \in {"constructed", "applied", "reapplied"}) =>
    \A k \in 1..Len(corners_) :
      \A e \in SquareEdgePixels(corners_[k]) :
        /\ Abs(weights_[e][5]) - 1 = 3 * (corners_[k][3] - 1)
        /\ coordsMap_[e[1] + e[2] * hght_] >= 0
        /\ \E q \in SquareCorners(corners_[k]) :
             /\ q[1] = e[1] \/ q[2] = e[2]
             /\ coordsMap_[q[1] + q[2] * hght_] >= 0
             /\ a_[coordsMap_[e[1] + e[2] * hght_]][coordsMap_[q[1] + q[2] * hght_]] # 0

\* The mean stencil of pixel e: unit weights toward the neighbours inside the
\* image and minus their number at the centre.
MeanStencil(e) ==
  LET l == IF e[2] > 0 THEN 1 ELSE 0
      r == IF e[2] < wdth_ - 1 THEN 1 ELSE 0
      t == IF e[1] > 0 THEN 1 ELSE 0
      b == IF e[1] < hght_ - 1 THEN 1 ELSE 0
  IN  <<l, r, t, b, -(l + r + t + b)>>

InSomeSquare(e) == \E k \in 1..Len(corners_) : e \in SquarePixels(corners_[k])

OnImageEdge(e) ==
  e[1] = 0 \/ e[1] = hght_ - 1 \/ e[2] = 0 \/ e[2] = wdth_ - 1

\* The stencils for a given set of hole pixels.
MeanStencils(hole) ==
  \A e \in Cells(hght_, wdth_) :
    /\ (e \in hole /\ ~InSomeSquare(e)) => weights_[e] = MeanStencil(e)
    /\ (e \in hole /\ OnImageEdge(e)) => coordsMap_[e[1] + e[2] * hght_] >= 0
    /\ e \notin hole => weights_[e] = <<0, 0, 0, 0, 0>>

\* The part of C28 that the constructor keeps: the stencils, with the hole
\* taken as the constructor read it from the buffer.
C28_StencilsOfMaskAsRead ==
  (kind = "bilin" /\ A_ /\ pc \in {"constructed", "applied", "reapplied"}) =>
    MeanStencils(HoleAsRead)

\* C28: after construction every hole pixel of the caller's row-major mask that
\* is in no registered square has the mean stencil (two unit weights and -2 at
\* an image corner, three and -3 on an image edge, four and -4 elsewhere), so
\* hole pixels on the outermost rows and columns are unknowns; every pixel that
\* is not a hole pixel has five zero weights.
C28_MeanStencils ==
  (kind = "bilin" /\ A_ /\ pc \in {"constructed", "applied", "reapplied"}) =>
    MeanStencils(CallerHole)

SquareAsStated(sq, hole) ==
  /\ sq[3] \in {4, 8, 16, 32, 64}
  /\ sq[1] % sq[3] = 0
  /\ sq[2] % sq[3] = 0
  /\ SquarePixels(sq) \subseteq Cells(hght_, wdth_)
  /\ SquarePixels(sq) \subseteq hole

\* The squares and extendedMask_ for a given set of hole pixels.
SquaresAndMask(hole) ==
  /\ \A k \in 1..Len(corners_) : SquareAsStated(corners_[k], hole)
  /\ \A e \in Cells(hght_, wdth_) :
       e \in extendedMask_.on <=> (e \in hole /\ ~InSomeSquare(e))

\* The part of C29 that the constructor keeps: the squares and extendedMask_,
\* with the hole taken as the constructor read it from the buffer.
C29_SquaresOfMaskAsRead ==
  (kind = "bilin" /\ A_ /\ pc \in {"constructed", "applied", "reapplied"}) =>
    SquaresAndMask(HoleAsRead)

\* C29: every square descriptor (top, left, side) has a side that is a power of
\* two >= 4 and top and left multiples of the side, and all its pixels are
\* inside the image and hole pixels of the caller's mask; after construction
\* extendedMask_ is true exactly on the hole pixels that are in no square.
C29_SquaresAndMask ==
  (kind = "bilin" /\ A_ /\ pc \in {"constructed", "applied", "reapplied"}) =>
    SquaresAndMask(CallerHole)

-----------------------------------------------------------------------------
(* Properties of the offsets that Fill::solve reads (SpecCtor). *)

\* Fill::solve: the row of the image map read for lrtb_ entry e, i = f*(-e-1)
\* with f = (e < 0).
solveIndex(e) ==
  LET f == IF e < 0 THEN 1 ELSE 0
  IN  f * (-e - 1)

C30_Neighbour(i, k) ==
  LET r == coords_[i][1]
      c == coords_[i][2]
  IN  <<<<r, c - 1>>, <<r, c + 1>>, <<r - 1, c>>, <<r + 1, c>>>>[k]

C30_CataloguePositions == {LinRowMaj(coords_[j][1], coords_[j][2], wdth_) : j \in 1..N}

\* C30: each negative entry e of row i of lrtb_ decodes to an offset -e - 1 in
\* [0, H*W) that is the row-major position of the corresponding neighbour of
\* coords_[i] and of no catalogue pixel; so every offset that solve reads while
\* it assembles b is inside the image and is not the position of a hole pixel.
C30_BoundaryOffsetsInBounds ==
  pc = "constructed" =>
    \A i \in 1..N, k \in 1..4 :
      LET e == lrtb_[i][k]
          n == C30_Neighbour(i, k)
      IN  /\ e < 0 =>
               /\ -e - 1 \in 0..(hght_ * wdth_ - 1)
               /\ n \in AllPix(wdth_, hght_)
               /\ -e - 1 = LinRowMaj(n[1], n[2], wdth_)
               /\ -e - 1 \notin C30_CataloguePositions
          /\ solveIndex(e) \in 0..(hght_ * wdth_ - 1)
          /\ solveIndex(e) \notin C30_CataloguePositions

\* A row of an image that is not square, with a boundary pixel above, an
\* unknown below and a repeated coordinate in the caller's list.
C30_Witness ==
  /\ pc = "constructed"
  /\ kind = "coords"
  /\ wdth_ # hght_
  /\ \E i \in 1..N : lrtb_[i][3] < 0 /\ lrtb_[i][4] >= 0
  /\ \E i \in 1..N, j \in 1..N : i # j /\ coords_[i] = coords_[j]

====
